---- MODULE Spec2Model ----
(***************************************************************************)
(* The OpenDiscourse service manager (start_services.py): the hard-coded   *)
(* service registry, the health probe, and the start / stop / restart /    *)
(* status / logs / setup operations of ServiceManager, step by step, with  *)
(* the command-line entry point main() and its signal handler.             *)
(* With it: the create endpoints of the MCP gateway (mcp_server/app.py),   *)
(* kickoff and run_analysis of the analysis crew (ai_crew), and the        *)
(* coroutines of MCPEnhancedAICrew (integrations/mcp_integration.py).      *)
(***************************************************************************)
EXTENDS Integers, Sequences, FiniteSets, TLC

VARIABLES
    running_services,   \* ServiceManager.running_services
    passed,             \* history: the services that passed their own health check in
                        \* start_services since stop_services last returned
    pc,                 \* position of the control flow
    cmd,                \* the operation being run: start, stop, restart, ...
    names,              \* its service_names argument (<<>> is None / no names)
    idx,                \* start: index into services_to_start; status: into the registry
    didx,               \* _wait_for_dependencies: index into service.dependencies
    ci,                 \* index into docker_compose_files
    ret,                \* what the last finished operation returned
    trace,              \* what the current operation did to the outside world
    running0,           \* running_services when the current operation was called
    exists,             \* the file system: which compose files exist
    kong_config,        \* the file system: ./infrastructure/kong/kong.yml
    prometheus_config,  \* the file system: .../prometheus/prometheus.yml
    baseline,           \* the world: TRUE when the services are up, FALSE when down
    deviations,         \* the world: the probes answered otherwise than by the baseline, and
                        \* the commands and set-up steps that failed, so far
    cli,                \* TRUE when the manager runs under main()
    handler,            \* TRUE once signal_handler has been entered
    signals,            \* signals delivered so far
    exit_code,          \* the process's exit code, NotExited while it runs
    probe,              \* the last direct call of _check_service_health
    services,           \* ServiceManager.services, the registry
    gateway,            \* the MCP integration server: the last request it handled
    ai_reviews,         \* the files under <repo_path>/ai_reviews: timestamp -> content
    analysis_results,   \* the files under analysis_results: timestamp -> content
    now,                \* the clock, in seconds
    analysis,           \* the last call of kickoff or run_analysis
    analysis_history,   \* MCPEnhancedAICrew.analysis_history
    _memory_store,      \* MCPClientWrapper._memory_store
    _clients,           \* MCPClientWrapper._clients: which sub-clients are enabled
    coroutines,         \* the analyze_code_with_mcp coroutines: where each one stands
    history             \* the last call of get_analysis_history

vars == <<running_services, passed, pc, cmd, names, idx, didx, ci, ret, trace, running0,
          exists, kong_config, prometheus_config, baseline, deviations,
          cli, handler, signals, exit_code, probe, services, gateway,
          ai_reviews, analysis_results, now, analysis,
          analysis_history, _memory_store, _clients, coroutines, history>>

\* the state of the analysis crew (ai_crew)
crewVars == <<ai_reviews, analysis_results, now, analysis>>

\* the state of the MCP-enhanced crew (integrations/mcp_integration.py)
mcpVars == <<analysis_history, _memory_store, _clients, coroutines, history>>

----------------------------------------------------------------------------
(* Bounds of the model. *)

\* how many times the world departs from its baseline: a probe answered
\* otherwise, an external command that fails, a set-up step that raises
MaxDeviations == 1
\* how many signals are delivered to one process
MaxSignals == 1
\* how many attempts of a probe the world answers one by one before it settles
MaxPrefix == 2
\* how far the clock of the analysis crew runs, in seconds
MaxClock == 1
\* how many analyze_code_with_mcp coroutines run on one MCPEnhancedAICrew
MaxCoroutines == 3
\* the largest limit given to get_analysis_history
MaxLimit == 3

----------------------------------------------------------------------------
(* The registry: ServiceConfig and ServiceManager._load_service_config. *)

\* dataclass ServiceConfig with its defaults and __post_init__
ServiceConfig(name, port, health_endpoint, dependencies) ==
    [name |-> name, port |-> port, host |-> "localhost",
     health_endpoint |-> health_endpoint, dependencies |-> dependencies,
     container_name |-> "opendiscourse-" \o name]

\* the default of ServiceConfig.health_endpoint
DefaultHealthEndpoint == "/health"

\* the dict literal of _load_service_config, as <<key, value>> in its order
RegistryItems ==
    << <<"postgres", ServiceConfig("postgres", 5432, "", <<>>)>>,
       <<"clickhouse", ServiceConfig("clickhouse", 8123, "/ping", <<>>)>>,
       <<"neo4j", ServiceConfig("neo4j", 7474, "", <<>>)>>,
       <<"weaviate", ServiceConfig("weaviate", 8080, "/v1/.well-known/ready", <<>>)>>,
       <<"qdrant", ServiceConfig("qdrant", 6333, "/", <<>>)>>,
       <<"rabbitmq", ServiceConfig("rabbitmq", 15672, "/", <<>>)>>,
       <<"supabase-db", ServiceConfig("supabase-db", 5433, "", <<>>)>>,
       <<"supabase-auth", ServiceConfig("supabase-auth", 9999, "/health", <<"supabase-db">>)>>,
       <<"kong", ServiceConfig("kong", 8001, "/status", <<>>)>>,
       <<"openwebui", ServiceConfig("openwebui", 3000, "/", <<>>)>>,
       <<"localai", ServiceConfig("localai", 8081, "/", <<>>)>>,
       <<"flowise", ServiceConfig("flowise", 3001, "/", <<>>)>>,
       <<"n8n", ServiceConfig("n8n", 5678, "/", <<>>)>>,
       <<"prometheus", ServiceConfig("prometheus", 9090, "/-/healthy", <<>>)>>,
       <<"grafana", ServiceConfig("grafana", 3002, "/api/health", <<>>)>>,
       <<"loki", ServiceConfig("loki", 3100, "/ready", <<>>)>>,
       <<"opensearch", ServiceConfig("opensearch", 9200, "/_cluster/health", <<>>)>>,
       <<"graylog", ServiceConfig("graylog", 9000, "/", <<"opensearch">>)>>,
       <<"opendiscourse-api",
         ServiceConfig("opendiscourse-api", 3333, DefaultHealthEndpoint,
                       <<"postgres", "supabase-auth">>)>>,
       <<"opendiscourse-worker",
         ServiceConfig("opendiscourse-worker", 3334, DefaultHealthEndpoint,
                       <<"postgres", "rabbitmq">>)>> >>

\* list(self.services.keys()): the keys in insertion order
Keys == [i \in 1..Len(RegistryItems) |-> RegistryItems[i][1]]

KeySet == {Keys[i] : i \in 1..Len(Keys)}

\* mutant: graylog's descriptor names a dependency that is not registered
RegistryWithDanglingDependency ==
    [k \in KeySet |->
        LET config == RegistryItems[CHOOSE i \in 1..Len(RegistryItems) :
                                       RegistryItems[i][1] = k][2]
        IN  IF k = "graylog"
            THEN [config EXCEPT !.dependencies = <<"elasticsearch">>]
            ELSE config]

\* the dict _load_service_config returns
_load_service_config ==
    [k \in KeySet |->
        RegistryItems[CHOOSE i \in 1..Len(RegistryItems) : RegistryItems[i][1] = k][2]]

\* self.docker_compose_files
docker_compose_files == <<"docker-compose.yml", "infrastructure/docker-compose.yml">>

ComposeFileSet == {docker_compose_files[i] : i \in 1..Len(docker_compose_files)}

\* mutant: every compose file is taken to exist
EveryFileExists(compose_file) == TRUE

\* os.path.exists(compose_file)
os_path_exists(compose_file) == exists[compose_file]

----------------------------------------------------------------------------
(* The health probe: _check_port and _check_service_health.                *)
(*                                                                         *)
(* The world answers the attempts of one probe call with a stream: the     *)
(* answer to attempt i is prefix[i] for the first Len(prefix) attempts and *)
(* `rest` for every later one. An answer is either ConnRefused (nothing    *)
(* listens on the port: connect_ex fails, requests.get raises a            *)
(* RequestException) or the HTTP status of the response.                   *)

\* the answer of a closed port
ConnRefused == 0 - 1

Answer(stream, i) ==
    IF i <= Len(stream.prefix) THEN stream.prefix[i] ELSE stream.rest

\* sock.connect_ex((host, port)): 0 on success, an errno otherwise
connect_ex(stream) == IF Answer(stream, 1) = ConnRefused THEN 111 ELSE 0

\* _check_port: one TCP connect, no retry
_check_port(stream) == connect_ex(stream) = 0

\* mutant: only a request exception is retried, a status of 400 or above
\* ends the loop with False
RECURSIVE RetryOnExceptionOnly(_, _, _)
RetryOnExceptionOnly(stream, timeout, attempt) ==
    IF attempt >= timeout
    THEN [ok |-> FALSE, gets |-> attempt, connects |-> 0]
    ELSE LET response == Answer(stream, attempt + 1)
         IN  IF response = ConnRefused
             THEN RetryOnExceptionOnly(stream, timeout, attempt + 1)
             ELSE [ok |-> response < 400, gets |-> attempt + 1, connects |-> 0]

\* the for loop of _check_service_health from `attempt` on (attempt counts from 0)
RECURSIVE HttpAttempts(_, _, _)
HttpAttempts(stream, timeout, attempt) ==
    IF attempt >= timeout
    THEN [ok |-> FALSE, gets |-> attempt, connects |-> 0]
    ELSE LET response == Answer(stream, attempt + 1)
         IN  IF response # ConnRefused /\ response < 400
             THEN [ok |-> TRUE, gets |-> attempt + 1, connects |-> 0]
             ELSE HttpAttempts(stream, timeout, attempt + 1)

\* mutant: the port check is skipped and the HTTP loop runs for every service
AlwaysHttp(service, timeout, stream) == HttpAttempts(stream, timeout, 0)

\* _check_service_health(service, timeout): the result, the number of HTTP GETs
\* and the number of TCP connects it made
_check_service_health(service, timeout, stream) ==
    IF service.health_endpoint = ""
    THEN [ok |-> _check_port(stream), gets |-> 0, connects |-> 1]
    ELSE HttpAttempts(stream, timeout, 0)

\* the default of the timeout parameter of _check_service_health
DefaultTimeout == 30
\* the timeout _wait_for_dependencies passes
DependencyTimeout == 60
\* the timeout start_services passes
StartTimeout == 60
\* the timeout status passes
StatusTimeout == 5

----------------------------------------------------------------------------
(* The world. *)

\* healthy at once
StreamUp == [prefix |-> <<>>, rest |-> 200]
\* not listening at the first attempt, healthy from the second on
StreamLate == [prefix |-> <<ConnRefused>>, rest |-> 200]
\* never listening
StreamDown == [prefix |-> <<>>, rest |-> ConnRefused]

\* The answers to the probes of the orchestration.  A port that answers every
\* request with an error status gives the TCP check the result of StreamUp and
\* the HTTP loop the result of StreamDown; the answers one by one, error
\* statuses among them, are those of HealthStreams below.
Streams == {StreamUp, StreamLate, StreamDown}

BaselineStream == IF baseline THEN StreamUp ELSE StreamDown

\* The services that may deviate from the baseline: the two dependency chains
\* of the registry (supabase-db <- supabase-auth <- opendiscourse-api -> postgres
\* and opensearch <- graylog).  Both kinds of probe are among them: postgres
\* and supabase-db have no health endpoint, the others have one.
Volatile ==
    {"postgres", "supabase-db", "supabase-auth", "opensearch", "graylog",
     "opendiscourse-api"}

\* the streams the world may answer a probe of service s with
WorldAllows(s, stream) ==
    \/ stream = BaselineStream
    \/ s \in Volatile /\ deviations < MaxDeviations

WorldAfter(s, stream) ==
    IF stream = BaselineStream THEN deviations ELSE deviations + 1

\* a command exits non-zero or a set-up step raises: the world departs from
\* its baseline once more
Fault == deviations < MaxDeviations /\ deviations' = deviations + 1

\* the exit codes of an external command as _run_command reports them: 0, or 1
\* for a non-zero exit, a timeout or any exception
ExitCodes == {0, 1}

----------------------------------------------------------------------------
(* The inputs. *)

Commands == {"start", "stop", "restart", "status", "logs", "setup"}

\* the service_names / services arguments tried; <<>> stands for None
ArgChoices ==
    { <<>>,
      <<"opensearch", "graylog">>,
      <<"opendiscourse-api">>,
      <<"supabase-auth", "no-such-service", "clickhouse">> }

NotExited == 0 - 1

\* the MCP integration server has handled no request
NoRequest == [endpoint |-> ""]

NoProbe == [name |-> "", timeout |-> 0, stream |-> StreamUp,
            result |-> [ok |-> FALSE, gets |-> 0, connects |-> 0]]

\* neither kickoff nor run_analysis has been called
NoAnalysis == [op |-> ""]

\* the analysis crew has not run: no file written, the clock at its origin
CrewIdle ==
    /\ ai_reviews = <<>>
    /\ analysis_results = <<>>
    /\ now = 0
    /\ analysis = NoAnalysis

\* get_analysis_history has not been called
NoHistory == [limit |-> 0 - 1, of |-> <<>>, returned |-> <<>>]

\* MCPIntegrationConfig(): every sub-client is enabled
DefaultClients ==
    [n \in {"sequential", "planning", "memory", "context7", "cloudflare"} |-> TRUE]

\* an MCPEnhancedAICrew as its constructor leaves it, no coroutine started
McpIdle ==
    /\ analysis_history = <<>>
    /\ _memory_store = <<>>
    /\ _clients = DefaultClients
    /\ coroutines = <<>>
    /\ history = NoHistory

----------------------------------------------------------------------------
(* The trace of an operation. *)

Event(kind, what, arg, ok, at) ==
    [kind |-> kind, what |-> what, arg |-> arg, ok |-> ok, at |-> at,
     gets |-> 0, connects |-> 0, stream |-> StreamUp]

\* _run_command(command): which command, on which compose file, exit code 0 or not
CmdEvent(what, file, rc) == Event("cmd", what, file, rc = 0, 0)

\* a call of _check_service_health: as "dep", "self" or "status", of service s,
\* while handling target number `at`, answered by the world with `stream`
ProbeEvent(role, s, r, at, stream) ==
    [kind |-> "probe", what |-> role, arg |-> s, ok |-> r.ok, at |-> at,
     gets |-> r.gets, connects |-> r.connects, stream |-> stream]

Log(e) == trace' = Append(trace, e)

----------------------------------------------------------------------------
Init ==
    /\ running_services = {}
    /\ passed = {}
    /\ pc = "idle"
    /\ cmd = "none"
    /\ names = <<>>
    /\ idx = 0
    /\ didx = 0
    /\ ci = 0
    /\ ret = "unset"
    /\ trace = <<>>
    /\ running0 = {}
    /\ exists \in [ComposeFileSet -> BOOLEAN]
    /\ kong_config = "absent"
    /\ prometheus_config = "absent"
    /\ baseline \in BOOLEAN
    /\ deviations = 0
    /\ cli = FALSE
    /\ handler = FALSE
    /\ signals = 0
    /\ exit_code = NotExited
    /\ probe = NoProbe
    /\ services = _load_service_config
    /\ gateway = NoRequest
    /\ CrewIdle
    /\ McpIdle

----------------------------------------------------------------------------
(* Returning from an operation: to the caller, or under main() to the end  *)
(* of the process.                                                         *)

\* the operation returns r; under main() the process then ends with code 0
Finish(r) ==
    /\ ret' = r
    /\ pc' = IF cli THEN "exited" ELSE "returned"
    /\ exit_code' = IF cli THEN 0 ELSE exit_code

\* the operation raises; under main() `except Exception` ends the process with 1
Raise ==
    /\ ret' = "raised"
    /\ pc' = IF cli THEN "exited" ELSE "returned"
    /\ exit_code' = IF cli THEN 1 ELSE exit_code

\* services_to_start = service_names or list(self.services.keys())
services_to_start == IF names = <<>> THEN Keys ELSE names

\* the first position of each operation
Entry(c) ==
    CASE c = "start" -> "check_docker"
      [] c = "stop" -> "compose_down"
      [] c = "restart" -> "compose_down"
      [] c = "status" -> "status"
      [] c = "logs" -> "logs"
      [] c = "setup" -> "setup"

Enter(c, a) ==
    /\ cmd' = c
    /\ names' = a
    /\ pc' = Entry(c)
    /\ idx' = 1
    /\ didx' = 1
    /\ ci' = IF c \in {"stop", "restart"} THEN Len(docker_compose_files) ELSE 1
    /\ ret' = "unset"
    /\ trace' = <<>>
    /\ running0' = running_services
    /\ UNCHANGED <<running_services, passed, exists, kong_config, prometheus_config,
                   baseline, deviations, services, cli, gateway, crewVars, mcpVars, handler, signals, exit_code, probe>>

\* the arguments main() passes to each command
ArgsOf(c) == IF c \in {"status", "setup"} THEN {<<>>} ELSE ArgChoices

\* a caller invokes one of the operations on the manager
Call ==
    /\ ~cli
    /\ pc = "idle"
    /\ \E c \in Commands : \E a \in ArgsOf(c) : Enter(c, a)

\* the caller has the result and is free to call the next operation
Resume ==
    /\ pc = "returned"
    /\ pc' = "idle"
    /\ cmd' = "none"
    /\ names' = <<>>
    /\ idx' = 0
    /\ didx' = 0
    /\ ci' = 0
    /\ ret' = "unset"
    /\ trace' = <<>>
    /\ running0' = running_services
    /\ UNCHANGED <<running_services, passed, exists, kong_config, prometheus_config,
                   baseline, deviations, services, cli, gateway, crewVars, mcpVars, handler, signals, exit_code, probe>>

\* main(): the dispatch on args.command
Main ==
    /\ cli
    /\ pc = "main"
    /\ \E c \in Commands : \E a \in ArgsOf(c) : Enter(c, a)

----------------------------------------------------------------------------
(* start_services *)

\* mutant: the exit code of docker-compose version is not looked at
DockerVersionOnly(dv, dcv) == dv = 0

\* _check_docker, given the exit codes of docker version and of
\* docker-compose version
_check_docker(dv, dcv) == dv = 0 /\ dcv = 0

\* `if not self._check_docker(): return False`; docker-compose version is run
\* only when docker version exited with 0
CheckDocker ==
    /\ pc = "check_docker"
    /\ \E dv \in ExitCodes : \E dcv \in (IF dv = 0 THEN ExitCodes ELSE {1}) :
         /\ trace' = trace \o
                <<CmdEvent("docker version", "", dv)>> \o
                (IF dv = 0 THEN <<CmdEvent("docker-compose version", "", dcv)>>
                           ELSE <<>>)
         /\ IF _check_docker(dv, dcv)
            THEN pc' = "setup" /\ UNCHANGED <<ret, exit_code, deviations>>
            ELSE Fault /\ Finish("False")
    /\ UNCHANGED <<running_services, passed, cmd, names, idx, didx, ci, running0, exists, kong_config, prometheus_config, baseline,
                   services, cli, gateway, crewVars, mcpVars, handler, signals, probe>>

\* mutant: setup_environment writes the file whether it exists or not
Overwritten(content) == "generated"

\* `if not os.path.exists(path): self._create_..._config(path)`: what a
\* configuration file holds after it
AfterSetup(content) == IF content = "absent" THEN "generated" ELSE content

\* where setup_environment may raise: in os.makedirs / os.chmod, in
\* _create_kong_config after open(config_path, 'w') has created the file
\* (`import yaml` or yaml.dump raises), or in the open of _create_prometheus_config
SetupFailures == {"none", "makedirs", "kong", "prometheus"}

\* setup_environment: the directories, then the two configuration files
SetupEnvironment ==
    /\ pc = "setup"
    /\ \E failure \in SetupFailures :
         CASE failure = "none" ->
                /\ UNCHANGED deviations
                /\ kong_config' = AfterSetup(kong_config)
                /\ prometheus_config' = AfterSetup(prometheus_config)
                /\ Log(Event("setup", "", "", TRUE, 0))
                /\ IF cmd = "setup"
                   THEN Finish("None") /\ UNCHANGED ci
                   ELSE pc' = "compose_up" /\ ci' = 1 /\ UNCHANGED <<ret, exit_code>>
           [] failure = "makedirs" ->
                /\ Fault
                /\ Raise
                /\ UNCHANGED <<kong_config, prometheus_config, trace, ci>>
           [] failure = "kong" ->
                /\ kong_config = "absent"
                /\ Fault
                /\ kong_config' = "empty"
                /\ Raise
                /\ UNCHANGED <<prometheus_config, trace, ci>>
           [] failure = "prometheus" ->
                /\ prometheus_config = "absent"
                /\ Fault
                /\ kong_config' = AfterSetup(kong_config)
                /\ Raise
                /\ UNCHANGED <<prometheus_config, trace, ci>>
    /\ UNCHANGED <<running_services, passed, cmd, names, idx, didx, running0, exists,
                   baseline, services, cli, gateway, crewVars, mcpVars, handler, signals, probe>>

\* mutant: start_services goes on after a failed docker-compose up
UpFailureIgnored(rc) == FALSE

\* `if result.returncode != 0: return False` after docker-compose up
UpFailureAborts(rc) == rc # 0

\* one iteration of the loop over docker_compose_files: docker-compose up -d
ComposeUp ==
    /\ pc = "compose_up"
    /\ LET compose_file == docker_compose_files[ci]
           Advance == IF ci < Len(docker_compose_files)
                      THEN ci' = ci + 1 /\ UNCHANGED <<pc, idx, didx>>
                      ELSE pc' = "target" /\ idx' = 1 /\ didx' = 1 /\ UNCHANGED ci
       IN  IF os_path_exists(compose_file)
           THEN \E rc \in ExitCodes :
                  /\ Log(CmdEvent("up", compose_file, rc))
                  /\ IF UpFailureAborts(rc)
                     THEN Fault /\ Finish("False") /\ UNCHANGED <<ci, idx, didx>>
                     ELSE Advance /\ UNCHANGED <<ret, exit_code, deviations>>
           ELSE Advance /\ UNCHANGED <<trace, ret, exit_code, deviations>>
    /\ UNCHANGED <<running_services, passed, cmd, names, running0, exists,
                   kong_config, prometheus_config, baseline, services, cli, gateway, crewVars, mcpVars,
                   handler, signals, probe>>

\* mutant: a name that is not in self.services is added to the running set
UnknownServiceAdded(service_name) == running_services \cup {service_name}

\* `if service_name not in self.services: ... continue`: nothing is added
AfterUnknownService(service_name) == running_services

\* the target loop: a name that is not in self.services is skipped
SkipUnknownService ==
    /\ pc = "target"
    /\ idx <= Len(services_to_start)
    /\ services_to_start[idx] \notin KeySet
    /\ idx' = idx + 1
    /\ didx' = 1
    /\ Log(Event("unknown service", "", services_to_start[idx], FALSE, idx))
    /\ running_services' = AfterUnknownService(services_to_start[idx])
    /\ UNCHANGED <<passed, pc, cmd, names, ci, ret, running0, exists, kong_config, prometheus_config, baseline, deviations,
                   services, cli, gateway, crewVars, mcpVars, handler, signals, exit_code, probe>>

\* mutant: only the first dependency is waited for
FirstDependencyOnly(service) ==
    IF service.dependencies = <<>> THEN <<>> ELSE <<service.dependencies[1]>>

\* `for dep_name in service.dependencies`
DependenciesOf(service) == service.dependencies

\* mutant: an unhealthy dependency does not make the target be skipped
AfterDependencyIgnoringFailure(healthy) == didx' = didx + 1 /\ UNCHANGED idx

\* _wait_for_dependencies returns False at the first dependency that is not
\* healthy, and start_services then goes on to the next target
AfterDependency(healthy) ==
    IF healthy
    THEN didx' = didx + 1 /\ UNCHANGED idx
    ELSE idx' = idx + 1 /\ didx' = 1

\* mutant: an unknown dependency makes _wait_for_dependencies return False
UnknownDependencyFails == idx' = idx + 1 /\ didx' = 1

\* `if dep_name not in self.services: ... continue`: on to the next dependency
AfterUnknownDependency == didx' = didx + 1 /\ UNCHANGED idx

\* one iteration of the loop of _wait_for_dependencies for the current target
\* mutant: a dependency found healthy is added to running_services
DependencyAdded(dep_name, healthy) ==
    IF healthy THEN running_services \cup {dep_name} ELSE running_services

\* _wait_for_dependencies only reports what the probe of a dependency says:
\* running_services is not touched
AfterDependencyProbe(dep_name, healthy) == running_services

WaitForDependency ==
    /\ pc = "target"
    /\ idx <= Len(services_to_start)
    /\ services_to_start[idx] \in KeySet
    /\ LET service == services[services_to_start[idx]]
       IN  /\ didx <= Len(DependenciesOf(service))
           /\ LET dep_name == DependenciesOf(service)[didx]
              IN  IF dep_name \notin KeySet
                  THEN /\ AfterUnknownDependency
                       /\ Log(Event("unknown dependency", "", dep_name, FALSE, idx))
                       /\ UNCHANGED <<deviations, running_services>>
                  ELSE \E stream \in Streams :
                         /\ WorldAllows(dep_name, stream)
                         /\ deviations' = WorldAfter(dep_name, stream)
                         /\ LET r == _check_service_health(services[dep_name],
                                                           DependencyTimeout, stream)
                            IN  /\ Log(ProbeEvent("dep", dep_name, r, idx, stream))
                                /\ AfterDependency(r.ok)
                                /\ running_services' =
                                      AfterDependencyProbe(dep_name, r.ok)
    /\ UNCHANGED <<passed, pc, cmd, names, ci, ret, running0, exists, kong_config, prometheus_config, baseline, services, cli, gateway, crewVars, mcpVars,
                   handler, signals, exit_code, probe>>

\* mutant: the target is added whatever its health check says
AddWithoutHealthCheck(service_name, healthy) == running_services \cup {service_name}

\* `if self._check_service_health(service, timeout=60):
\*      self.running_services.add(service_name)`
AfterSelfProbe(service_name, healthy) ==
    IF healthy THEN running_services \cup {service_name} ELSE running_services

\* the health check of the target itself, and running_services.add
ProbeSelf ==
    /\ pc = "target"
    /\ idx <= Len(services_to_start)
    /\ services_to_start[idx] \in KeySet
    /\ LET service_name == services_to_start[idx]
           service == services[service_name]
       IN  /\ didx > Len(DependenciesOf(service))
           /\ \E stream \in Streams :
                /\ WorldAllows(service_name, stream)
                /\ deviations' = WorldAfter(service_name, stream)
                /\ LET r == _check_service_health(service, StartTimeout, stream)
                   IN  /\ Log(ProbeEvent("self", service_name, r, idx, stream))
                       /\ running_services' = AfterSelfProbe(service_name, r.ok)
                       /\ passed' = IF r.ok THEN passed \cup {service_name} ELSE passed
    /\ idx' = idx + 1
    /\ didx' = 1
    /\ UNCHANGED <<pc, cmd, names, ci, ret, running0, exists, kong_config,
                   prometheus_config, baseline, services, cli, gateway, crewVars, mcpVars, handler, signals,
                   exit_code, probe>>

\* mutant: start_services returns False when it leaves nothing running
FalseWhenNothingRuns == IF running_services = {} THEN "False" ELSE "True"

\* `return True` at the end of start_services
StartResult == "True"

\* after the target loop: _print_service_status and return True
StartReturn ==
    /\ pc = "target"
    /\ idx > Len(services_to_start)
    /\ Finish(StartResult)
    /\ UNCHANGED <<running_services, passed, cmd, names, idx, didx, ci, trace, running0,
                   exists, kong_config, prometheus_config, baseline,
                   deviations, services, cli, gateway, crewVars, mcpVars, handler, signals, probe>>

----------------------------------------------------------------------------
(* stop_services, restart_services *)

\* mutant: the loop of stop_services ends at the first teardown that fails
DownFailureEndsLoop(rc) ==
    IF ci > 1 /\ rc = 0
    THEN ci' = ci - 1 /\ UNCHANGED pc
    ELSE pc' = "clear" /\ UNCHANGED ci

\* the loop of stop_services goes on to the next compose file whatever the
\* teardown returned: a non-zero returncode only prints a warning
AfterDown(rc) ==
    IF ci > 1
    THEN ci' = ci - 1 /\ UNCHANGED pc
    ELSE pc' = "clear" /\ UNCHANGED ci

\* one iteration of the loop over reversed(docker_compose_files): docker-compose down
ComposeDown ==
    /\ pc = "compose_down"
    /\ LET compose_file == docker_compose_files[ci]
       IN  IF os_path_exists(compose_file)
           THEN \E rc \in ExitCodes :
                  /\ rc = 0 \/ deviations < MaxDeviations
                  /\ deviations' = IF rc = 0 THEN deviations ELSE deviations + 1
                  /\ Log(CmdEvent("down", compose_file, rc))
                  /\ AfterDown(rc)
           ELSE AfterDown(0) /\ UNCHANGED <<trace, deviations>>
    /\ UNCHANGED <<running_services, passed, cmd, names, idx, didx, ret, running0, exists,
                   kong_config, prometheus_config, baseline,
                   services, cli, gateway, crewVars, mcpVars, handler, signals, exit_code, probe>>

\* mutant: the running set is kept when a teardown command failed
ClearedUnlessTeardownFailed ==
    IF \E k \in 1..Len(trace) :
          trace[k].kind = "cmd" /\ trace[k].what = "down" /\ ~trace[k].ok
    THEN running_services ELSE {}

\* self.running_services.clear(): what is left of the running set
Cleared == {}

\* mutant: restart_services returns after stop_services
AfterStopWithoutStart ==
    IF handler
    THEN pc' = "exited" /\ exit_code' = 0 /\ UNCHANGED ret
    ELSE Finish("None")

\* mutant: signal_handler returns instead of calling sys.exit(0), and a start
\* it had interrupted goes on with its targets
HandlerReturnsIntoStart ==
    IF handler
    THEN IF cmd = "start" /\ ret = "unset"
         THEN pc' = "target" /\ UNCHANGED <<ret, exit_code>>
         ELSE pc' = "exited" /\ exit_code' = 0 /\ UNCHANGED ret
    ELSE IF cmd = "restart"
         THEN pc' = "sleep" /\ UNCHANGED <<ret, exit_code>>
         ELSE Finish("None")

\* where stop_services returns to: into signal_handler, which calls
\* sys.exit(0); into restart_services, which sleeps and calls start_services;
\* or to the caller of stop_services
AfterStop ==
    IF handler
    THEN pc' = "exited" /\ exit_code' = 0 /\ UNCHANGED ret
    ELSE IF cmd = "restart"
         THEN pc' = "sleep" /\ UNCHANGED <<ret, exit_code>>
         ELSE Finish("None")

\* self.running_services.clear(), and the return of stop_services
StopClear ==
    /\ pc = "clear"
    /\ running_services' = Cleared
    /\ passed' = {}
    /\ Log(Event("clear", "", "", TRUE, 0))
    /\ AfterStop
    /\ UNCHANGED <<cmd, names, idx, didx, ci, running0, exists,
                   kong_config, prometheus_config, baseline, deviations, services, cli, gateway, crewVars, mcpVars,
                   handler, signals, probe>>

\* restart_services: time.sleep(5) between stop_services and start_services
RestartSleep ==
    /\ pc = "sleep"
    /\ pc' = "check_docker"
    /\ Log(Event("sleep", "", "", TRUE, 0))
    /\ UNCHANGED <<running_services, passed, cmd, names, idx, didx, ci, ret, running0,
                   exists, kong_config, prometheus_config, baseline,
                   deviations, services, cli, gateway, crewVars, mcpVars, handler, signals, exit_code, probe>>

----------------------------------------------------------------------------
(* status, logs *)

\* mutant: the loop of status leaves out the last service
StatusStopsEarly == Len(Keys) - 1

\* `for service_name, service in self.services.items()`: the last iteration
StatusLast == Len(Keys)

\* mutant: status records the services it finds healthy
StatusAddsHealthy(service_name, is_healthy) ==
    IF is_healthy THEN running_services \cup {service_name} ELSE running_services

\* what status does with is_healthy: it prints a line, and the running set stays
AfterStatusProbe(service_name, is_healthy) == running_services

\* one iteration of the loop of status over self.services.items()
StatusProbe ==
    /\ pc = "status"
    /\ LET service_name == Keys[idx]
       IN  \E stream \in Streams :
             /\ WorldAllows(service_name, stream)
             /\ deviations' = WorldAfter(service_name, stream)
             /\ LET r == _check_service_health(services[service_name],
                                               StatusTimeout, stream)
                IN  /\ Log(ProbeEvent("status", service_name, r, idx, stream))
                    /\ running_services' = AfterStatusProbe(service_name, r.ok)
                    /\ UNCHANGED passed
    /\ IF idx < StatusLast
       THEN idx' = idx + 1 /\ UNCHANGED <<pc, ret, exit_code>>
       ELSE Finish("None") /\ UNCHANGED idx
    /\ UNCHANGED <<cmd, names, didx, ci, running0, exists, kong_config,
                   prometheus_config, baseline, services, cli, gateway, crewVars, mcpVars, handler, signals, probe>>

\* logs(service_name, follow): one docker-compose logs command
Logs ==
    /\ pc = "logs"
    /\ IF names # <<>> /\ names[1] \notin KeySet
       THEN Log(Event("unknown service", "", names[1], FALSE, 0))
       ELSE \E rc \in ExitCodes :
              Log(CmdEvent("logs", IF names = <<>> THEN ""
                                   ELSE services[names[1]].container_name, rc))
    /\ Finish("None")
    /\ UNCHANGED <<running_services, passed, cmd, names, idx, didx, ci, running0, exists, kong_config, prometheus_config, baseline, deviations,
                   services, cli, gateway, crewVars, mcpVars, handler, signals, probe>>

----------------------------------------------------------------------------
(* main(): the signal handler *)

\* mutant: signal_handler exits without calling stop_services
HandlerExitsAtOnce == "exited"

\* what signal_handler does first: manager.stop_services()
HandlerCalls == "compose_down"

\* SIGINT or SIGTERM is delivered: signal_handler runs on top of whatever the
\* process was doing, calls manager.stop_services() and then sys.exit(0)
Signal ==
    /\ cli
    /\ pc # "exited"
    /\ signals < MaxSignals
    /\ signals' = signals + 1
    /\ handler' = TRUE
    /\ pc' = HandlerCalls
    /\ ci' = Len(docker_compose_files)
    /\ Log(Event("signal", "", "", TRUE, 0))
    /\ UNCHANGED <<running_services, passed, cmd, names, idx, didx, ret, running0, exists, kong_config, prometheus_config, baseline, deviations,
                   services, cli, gateway, crewVars, mcpVars, exit_code, probe>>

----------------------------------------------------------------------------
(* The manager used as an object: operations called one after another. *)

Next ==
    \/ Call
    \/ Resume
    \/ CheckDocker
    \/ SetupEnvironment
    \/ ComposeUp
    \/ SkipUnknownService
    \/ WaitForDependency
    \/ ProbeSelf
    \/ StartReturn
    \/ ComposeDown
    \/ StopClear
    \/ RestartSleep
    \/ StatusProbe
    \/ Logs

Spec == Init /\ [][Next]_vars

(* The manager under main(): one command, signals at any point. *)

InitCLI ==
    /\ running_services = {}
    /\ passed = {}
    /\ pc = "main"
    /\ cmd = "none"
    /\ names = <<>>
    /\ idx = 0
    /\ didx = 0
    /\ ci = 0
    /\ ret = "unset"
    /\ trace = <<>>
    /\ running0 = {}
    /\ exists \in [ComposeFileSet -> BOOLEAN]
    /\ kong_config = "absent"
    /\ prometheus_config = "absent"
    /\ baseline \in BOOLEAN
    /\ deviations = 0
    /\ cli = TRUE
    /\ handler = FALSE
    /\ signals = 0
    /\ exit_code = NotExited
    /\ probe = NoProbe
    /\ services = _load_service_config
    /\ gateway = NoRequest
    /\ CrewIdle
    /\ McpIdle

NextCLI ==
    \/ Main
    \/ Signal
    \/ CheckDocker
    \/ SetupEnvironment
    \/ ComposeUp
    \/ SkipUnknownService
    \/ WaitForDependency
    \/ ProbeSelf
    \/ StartReturn
    \/ ComposeDown
    \/ StopClear
    \/ RestartSleep
    \/ StatusProbe
    \/ Logs

SpecCLI == InitCLI /\ [][NextCLI]_vars

(* _check_service_health called directly, on every service of the registry, *)
(* with every timeout and every stream of answers within the bounds.        *)

\* the answers of the world: a closed port, or the status of an HTTP response
Answers == {ConnRefused, 200, 399, 400, 503}

RECURSIVE SeqsUpTo(_, _)
SeqsUpTo(S, n) ==
    IF n = 0 THEN {<<>>}
    ELSE LET shorter == SeqsUpTo(S, n - 1)
         IN  shorter \cup {Append(q, x) : q \in shorter, x \in S}

HealthStreams == [prefix : SeqsUpTo(Answers, MaxPrefix), rest : Answers]

\* the timeouts of the call sites, the default of the parameter, and small ones
Timeouts == {0, 1, 2, StatusTimeout, DefaultTimeout, StartTimeout}

InitHealth ==
    /\ running_services = {}
    /\ passed = {}
    /\ pc = "health"
    /\ cmd = "none"
    /\ names = <<>>
    /\ idx = 0
    /\ didx = 0
    /\ ci = 0
    /\ ret = "unset"
    /\ trace = <<>>
    /\ running0 = {}
    /\ exists = [f \in ComposeFileSet |-> TRUE]
    /\ kong_config = "absent"
    /\ prometheus_config = "absent"
    /\ baseline = TRUE
    /\ deviations = 0
    /\ cli = FALSE
    /\ handler = FALSE
    /\ signals = 0
    /\ exit_code = NotExited
    /\ probe = NoProbe
    /\ services = _load_service_config
    /\ gateway = NoRequest
    /\ CrewIdle
    /\ McpIdle

\* one call of _check_service_health(services[name], timeout)
CheckServiceHealth ==
    /\ pc = "health"
    /\ \E name \in KeySet : \E timeout \in Timeouts : \E stream \in HealthStreams :
         probe' = [name |-> name, timeout |-> timeout, stream |-> stream,
                   result |-> _check_service_health(services[name], timeout, stream)]
    /\ pc' = "health_returned"
    /\ UNCHANGED <<running_services, passed, cmd, names, idx, didx, ci, ret, trace,
                   running0, exists, kong_config, prometheus_config, baseline,
                   deviations, services, cli, gateway, crewVars, mcpVars, handler, signals, exit_code>>

NextHealth == CheckServiceHealth

SpecHealth == InitHealth /\ [][NextHealth]_vars

(* start_services on a registry one of whose descriptors names a          *)
(* dependency that is not a key of the registry.                           *)

UnknownDependency == "no-such-dependency"

\* the registry with the dependencies of one service replaced
WithDependencies(name, deps) ==
    [_load_service_config EXCEPT ![name].dependencies = deps]

DanglingRegistries ==
    { WithDependencies("clickhouse", <<UnknownDependency>>),
      WithDependencies("graylog", <<UnknownDependency, "opensearch">>),
      WithDependencies("graylog", <<"opensearch", UnknownDependency>>),
      WithDependencies("opendiscourse-api",
                       <<"postgres", UnknownDependency, "supabase-auth">>),
      WithDependencies("opendiscourse-api",
                       <<UnknownDependency, UnknownDependency>>) }

ArgChoicesDeps ==
    { <<>>, <<"graylog">>, <<"opendiscourse-api", "clickhouse">> }

InitDeps ==
    /\ running_services = {}
    /\ passed = {}
    /\ pc = "idle"
    /\ cmd = "none"
    /\ names = <<>>
    /\ idx = 0
    /\ didx = 0
    /\ ci = 0
    /\ ret = "unset"
    /\ trace = <<>>
    /\ running0 = {}
    /\ exists \in [ComposeFileSet -> BOOLEAN]
    /\ kong_config = "absent"
    /\ prometheus_config = "absent"
    /\ baseline \in BOOLEAN
    /\ deviations = 0
    /\ cli = FALSE
    /\ handler = FALSE
    /\ signals = 0
    /\ exit_code = NotExited
    /\ probe = NoProbe
    /\ services \in DanglingRegistries
    /\ gateway = NoRequest
    /\ CrewIdle
    /\ McpIdle

\* a caller invokes start_services
CallStart ==
    /\ ~cli
    /\ pc = "idle"
    /\ \E a \in ArgChoicesDeps : Enter("start", a)

NextDeps ==
    \/ CallStart
    \/ CheckDocker
    \/ SetupEnvironment
    \/ ComposeUp
    \/ WaitForDependency
    \/ ProbeSelf
    \/ StartReturn

SpecDeps == InitDeps /\ [][NextDeps]_vars

(* setup_environment, called directly and through start_services, any      *)
(* number of times, on a file system that may hold the two configuration  *)
(* files already.                                                          *)

ArgChoicesSetup == { <<"graylog">> }

InitSetup ==
    /\ running_services = {}
    /\ passed = {}
    /\ pc = "idle"
    /\ cmd = "none"
    /\ names = <<>>
    /\ idx = 0
    /\ didx = 0
    /\ ci = 0
    /\ ret = "unset"
    /\ trace = <<>>
    /\ running0 = {}
    /\ exists \in [ComposeFileSet -> BOOLEAN]
    /\ kong_config \in {"absent", "custom"}
    /\ prometheus_config \in {"absent", "custom"}
    /\ baseline \in BOOLEAN
    /\ deviations = 0
    /\ cli = FALSE
    /\ handler = FALSE
    /\ signals = 0
    /\ exit_code = NotExited
    /\ probe = NoProbe
    /\ services = _load_service_config
    /\ gateway = NoRequest
    /\ CrewIdle
    /\ McpIdle

\* a caller invokes setup_environment, or start_services
CallSetup ==
    /\ ~cli
    /\ pc = "idle"
    /\ \/ Enter("setup", <<>>)
       \/ \E a \in ArgChoicesSetup : Enter("start", a)

NextSetup ==
    \/ CallSetup
    \/ Resume
    \/ CheckDocker
    \/ SetupEnvironment
    \/ ComposeUp
    \/ WaitForDependency
    \/ ProbeSelf
    \/ StartReturn

SpecSetup == InitSetup /\ [][NextSetup]_vars

(* The MCP integration server (mcp_server/app.py): the five create         *)
(* endpoints, each called once with every environment of its credential   *)
(* variables and every answer of the upstream service.                    *)

\* a variable of the environment: not set, or set to a string
Unset == [set |-> FALSE, value |-> ""]

Value(v) == [set |-> TRUE, value |-> v]

EnvValues == {Unset, Value(""), Value("x")}

\* os.getenv(name, default)
getenv(env, name, default) == IF env[name].set THEN env[name] ELSE default

\* the truth value Python gives to None and to a string
Truthy(v) == v.set /\ v.value # ""

\* what the upstream service does with the POST: it cannot be reached
\* (requests.post raises), or it answers with a status and a body
UpstreamDown == [status_code |-> ConnRefused, text |-> ""]

\* the statuses and the bodies an upstream service answers with
UpstreamStatuses == {200, 201, 204, 404, 500}

UpstreamTexts == {"{}", "denied"}

Upstreams ==
    {UpstreamDown} \cup [status_code : UpstreamStatuses, text : UpstreamTexts]

\* resp.json(): the value of a body that is JSON, a ValueError for any other
json_loads(text) ==
    IF text = "{}"
    THEN [ok |-> TRUE, value |-> "dict()"]
    ELSE [ok |-> FALSE, value |-> "ValueError"]

\* `return {"status": "simulated", "message": ...}`: no request goes out
Simulated ==
    [status_code |-> 200, status |-> "simulated", detail |-> "", json |-> "",
     posts |-> 0]

\* an exception that is not an HTTPException: the framework answers 500
InternalError ==
    [status_code |-> 500, status |-> "internal error", detail |-> "", json |-> "",
     posts |-> 1]

\* requests.post(...), then HTTPException(resp.status_code, resp.text) unless
\* the status is one of `success`, else `return resp.json()`; an exception of
\* requests.post or of resp.json() becomes the framework's 500 response
Post(upstream, success) ==
    IF upstream = UpstreamDown
    THEN InternalError
    ELSE IF upstream.status_code \notin success
         THEN [status_code |-> upstream.status_code, status |-> "error",
               detail |-> upstream.text, json |-> "", posts |-> 1]
         ELSE IF json_loads(upstream.text).ok
              THEN [status_code |-> 200, status |-> "upstream", detail |-> "",
                    json |-> json_loads(upstream.text).value, posts |-> 1]
              ELSE InternalError

BitbucketVars == {"BITBUCKET_WORKSPACE", "BITBUCKET_USERNAME", "BITBUCKET_APP_PASSWORD"}

create_bitbucket_repo(env, upstream) ==
    LET workspace == getenv(env, "BITBUCKET_WORKSPACE", Unset)
        user == getenv(env, "BITBUCKET_USERNAME", Unset)
        app_password == getenv(env, "BITBUCKET_APP_PASSWORD", Unset)
    IN  IF ~(Truthy(workspace) /\ Truthy(user) /\ Truthy(app_password))
        THEN Simulated
        ELSE Post(upstream, {200, 201})

JiraVars == {"JIRA_BASE_URL", "JIRA_USER", "JIRA_API_TOKEN", "JIRA_PROJECT_KEY"}

create_jira_issue(env, upstream) ==
    LET base == getenv(env, "JIRA_BASE_URL", Unset)
        user == getenv(env, "JIRA_USER", Unset)
        token == getenv(env, "JIRA_API_TOKEN", Unset)
        project == getenv(env, "JIRA_PROJECT_KEY", Value(""))
    IN  IF ~(Truthy(base) /\ Truthy(user) /\ Truthy(token) /\ Truthy(project))
        THEN Simulated
        ELSE Post(upstream, {200, 201})

ConfluenceVars ==
    {"CONFLUENCE_BASE_URL", "CONFLUENCE_USER", "CONFLUENCE_API_TOKEN",
     "CONFLUENCE_SPACE_KEY"}

create_confluence_page(env, upstream) ==
    LET base == getenv(env, "CONFLUENCE_BASE_URL", Unset)
        user == getenv(env, "CONFLUENCE_USER", Unset)
        token == getenv(env, "CONFLUENCE_API_TOKEN", Unset)
        space == getenv(env, "CONFLUENCE_SPACE_KEY", Value(""))
    IN  IF ~(Truthy(base) /\ Truthy(user) /\ Truthy(token) /\ Truthy(space))
        THEN Simulated
        ELSE Post(upstream, {200, 201})

LinearVars == {"LINEAR_API_KEY"}

\* mutant: create_linear_issue takes 201 for a success, as the other four do
LinearAccepts201(env, upstream) ==
    IF ~Truthy(getenv(env, "LINEAR_API_KEY", Unset))
    THEN Simulated
    ELSE Post(upstream, {200, 201})

create_linear_issue(env, upstream) ==
    LET api_key == getenv(env, "LINEAR_API_KEY", Unset)
    IN  IF ~Truthy(api_key)
        THEN Simulated
        ELSE Post(upstream, {200})

GithubVars == {"GITHUB_TOKEN", "GITHUB_REPO"}

\* mutant: create_github_pr looks at the token only
GithubTokenOnly(env, upstream) ==
    IF ~Truthy(getenv(env, "GITHUB_TOKEN", Unset))
    THEN Simulated
    ELSE Post(upstream, {200, 201})

create_github_pr(env, upstream) ==
    LET gh_token == getenv(env, "GITHUB_TOKEN", Unset)
        repo == getenv(env, "GITHUB_REPO", Unset)
    IN  IF ~(Truthy(gh_token) /\ Truthy(repo))
        THEN Simulated
        ELSE Post(upstream, {200, 201})

\* a request to `endpoint` and the response to it
Request(endpoint, env, upstream, response) ==
    [endpoint |-> endpoint, env |-> env, upstream |-> upstream, response |-> response]

\* what the server leaves alone
managerVars ==
    <<running_services, passed, cmd, names, idx, didx, ci, ret, trace, running0,
      exists, kong_config, prometheus_config, baseline, deviations, cli,
      handler, signals, exit_code, probe, services>>

\* POST /bitbucket/repos
CreateBitbucketRepo ==
    /\ pc = "gateway"
    /\ \E env \in [BitbucketVars -> EnvValues] : \E upstream \in Upstreams :
         gateway' = Request("/bitbucket/repos", env, upstream,
                            create_bitbucket_repo(env, upstream))
    /\ pc' = "gateway_returned"
    /\ UNCHANGED <<managerVars, crewVars, mcpVars>>

\* POST /jira/issues
CreateJiraIssue ==
    /\ pc = "gateway"
    /\ \E env \in [JiraVars -> EnvValues] : \E upstream \in Upstreams :
         gateway' = Request("/jira/issues", env, upstream,
                            create_jira_issue(env, upstream))
    /\ pc' = "gateway_returned"
    /\ UNCHANGED <<managerVars, crewVars, mcpVars>>

\* POST /confluence/pages
CreateConfluencePage ==
    /\ pc = "gateway"
    /\ \E env \in [ConfluenceVars -> EnvValues] : \E upstream \in Upstreams :
         gateway' = Request("/confluence/pages", env, upstream,
                            create_confluence_page(env, upstream))
    /\ pc' = "gateway_returned"
    /\ UNCHANGED <<managerVars, crewVars, mcpVars>>

\* POST /linear/issues
CreateLinearIssue ==
    /\ pc = "gateway"
    /\ \E env \in [LinearVars -> EnvValues] : \E upstream \in Upstreams :
         gateway' = Request("/linear/issues", env, upstream,
                            create_linear_issue(env, upstream))
    /\ pc' = "gateway_returned"
    /\ UNCHANGED <<managerVars, crewVars, mcpVars>>

\* POST /github/pull-requests
CreateGithubPr ==
    /\ pc = "gateway"
    /\ \E env \in [GithubVars -> EnvValues] : \E upstream \in Upstreams :
         gateway' = Request("/github/pull-requests", env, upstream,
                            create_github_pr(env, upstream))
    /\ pc' = "gateway_returned"
    /\ UNCHANGED <<managerVars, crewVars, mcpVars>>

InitGateway ==
    /\ running_services = {}
    /\ passed = {}
    /\ pc = "gateway"
    /\ cmd = "none"
    /\ names = <<>>
    /\ idx = 0
    /\ didx = 0
    /\ ci = 0
    /\ ret = "unset"
    /\ trace = <<>>
    /\ running0 = {}
    /\ exists = [f \in ComposeFileSet |-> TRUE]
    /\ kong_config = "absent"
    /\ prometheus_config = "absent"
    /\ baseline = TRUE
    /\ deviations = 0
    /\ cli = FALSE
    /\ handler = FALSE
    /\ signals = 0
    /\ exit_code = NotExited
    /\ probe = NoProbe
    /\ services = _load_service_config
    /\ gateway = NoRequest
    /\ CrewIdle
    /\ McpIdle

NextGateway ==
    \/ CreateBitbucketRepo
    \/ CreateJiraIssue
    \/ CreateConfluencePage
    \/ CreateLinearIssue
    \/ CreateGithubPr

SpecGateway == InitGateway /\ [][NextGateway]_vars

----------------------------------------------------------------------------
(* The analysis crew (ai_crew/crew.py and ai_crew/run_analysis.py): one    *)
(* call of CodebaseAnalysisCrew.kickoff or of run_analysis, on a file      *)
(* system that may hold files of an earlier run.                           *)

\* the keys of CodebaseAnalysisCrew.tasks
TaskKeys == {"code_review", "documentation", "quality_assurance", "improvement_proposals"}

\* Task.output after the crew has run: a string, or an object that
\* json.dumps does not take
TaskOutputs == {"text", "object"}

\* the outputs of the four tasks: there is none (getattr gives None), or each
\* task has one
OutputChoices == {[k \in TaskKeys |-> "None"]} \cup [TaskKeys -> TaskOutputs]

\* json.dumps(value): the text, or a TypeError
json_dumps(value) ==
    CASE value = "None" -> [ok |-> TRUE, text |-> "null"]
      [] value = "text" -> [ok |-> TRUE, text |-> "\"text\""]
      [] OTHER -> [ok |-> FALSE, text |-> "TypeError"]

\* str(value)
str(value) == "<" \o value \o ">"

\* _normalize(value): the value itself if json.dumps takes it, else str(value)
_normalize(value) == IF json_dumps(value).ok THEN value ELSE str(value)

\* datetime.now(): the clock stands, or has gone on by a second
Clock(t) == {u \in {t, t + 1} : u <= MaxClock}

\* where in kickoff an exception is raised: nowhere, in Crew(...), in
\* crew_instance.kickoff(), in os.makedirs, in open, or in json.dump
KickoffFailures == {"none", "Crew", "kickoff", "makedirs", "open", "dump"}

\* mutant: the try block of kickoff ends before the results are saved
GuardedCrewOnly(failure) == failure \in {"Crew", "kickoff"}

\* the statements of kickoff that the try block encloses: all of them
Guarded(failure) == TRUE

\* the results dict of kickoff
Results(outputs, t) ==
    [timestamp |-> ToString(t),
     code_review |-> _normalize(outputs["code_review"]),
     documentation |-> _normalize(outputs["documentation"]),
     quality_assessment |-> _normalize(outputs["quality_assurance"]),
     improvement_proposals |-> _normalize(outputs["improvement_proposals"]),
     raw_result |-> str("result")]

\* `return {"status": "error", "error": error_msg}`
ErrorDict(failure) ==
    [status |-> "error", error |-> "Error in analysis crew: " \o failure]

\* a file that open(..., 'w') created or emptied and json.dump did not finish
Truncated == [truncated |-> "json"]

\* open(file, 'w') and json.dump(content, f): the file system afterwards
Write(files, t, content) ==
    [x \in DOMAIN files \cup {t} |-> IF x = t THEN content ELSE files[x]]

\* a call that raised has no return value
Raised == [raised |-> TRUE, ret |-> <<>>]

Returned(value) == [raised |-> FALSE, ret |-> value]

\* CodebaseAnalysisCrew.kickoff(): what it returns or raises, and the files
\* under ai_reviews afterwards; `first` and `second` are the two readings of
\* the clock
kickoff(failure, outputs, reviews, first, second) ==
    LET results == Results(outputs, first)
        files == CASE failure = "none" -> Write(reviews, second, results)
                   [] failure = "dump" -> Write(reviews, second, Truncated)
                   [] OTHER -> reviews
        outcome == IF failure = "none"
                   THEN Returned(results)
                   ELSE IF Guarded(failure)
                        THEN Returned(ErrorDict(failure))
                        ELSE Raised
    IN  [raised |-> outcome.raised, ret |-> outcome.ret, ai_reviews |-> files]

\* the two readings of the clock in a call that begins at `start`
Readings(start) ==
    {r \in [first : 0..MaxClock, second : 0..MaxClock] :
        r.first \in Clock(start) /\ r.second \in Clock(r.first)}

\* crew.kickoff() called directly
Kickoff ==
    /\ pc = "analysis"
    /\ \E failure \in KickoffFailures : \E outputs \in OutputChoices :
       \E r \in Readings(now) :
         LET k == kickoff(failure, outputs, ai_reviews, r.first, r.second)
         IN  /\ analysis' = [op |-> "kickoff", failure |-> failure,
                             outputs |-> outputs, raised |-> k.raised, ret |-> k.ret,
                             reviews0 |-> ai_reviews, at |-> r.second]
             /\ ai_reviews' = k.ai_reviews
             /\ now' = r.second
    /\ pc' = "analysis_returned"
    /\ UNCHANGED <<managerVars, gateway, analysis_results, mcpVars>>

\* the classes that stand for CodebaseAnalysisCrew: the class of crew.py, and
\* the stand-in of test_run_analysis.py, whose kickoff returns what it is given
CrewClasses == {"CodebaseAnalysisCrew", "stand-in"}

\* fake_results of test_run_analysis.py
FakeResults == [summary |-> "ok", details |-> "[]"]

\* what the kickoff of the stand-in does: it raises, or returns a dict
StandInReturns == {Raised, Returned(<<>>), Returned(FakeResults)}

\* where in the saving of run_analysis an exception is raised
SaveFailures == {"none", "makedirs", "open", "dump"}

\* mutant: run_analysis returns the results though saving them failed
ReturnsResultsAnyway(save, results) == results

\* the end of run_analysis: `return results`, or `return {}` from the handler
AfterSave(save, results) == IF save = "none" THEN results ELSE <<>>

\* `not results` for a dict
Falsy(results) == DOMAIN results = {}

\* run_analysis(args) from the construction of the crew on: `k` is what
\* crew.kickoff() did, `constructed` whether CodebaseAnalysisCrew(...) returned
run_analysis(constructed, k, save, results_files, t) ==
    IF ~constructed \/ k.raised
    THEN [ret |-> <<>>, analysis_results |-> results_files]
    ELSE IF Falsy(k.ret)
         THEN [ret |-> <<>>, analysis_results |-> results_files]
         ELSE [ret |-> AfterSave(save, k.ret),
               analysis_results |->
                  CASE save = "none" -> Write(results_files, t, k.ret)
                    [] save = "dump" -> Write(results_files, t, Truncated)
                    [] OTHER -> results_files]

\* run_analysis(args) with the class of crew.py
RunAnalysis ==
    /\ pc = "analysis"
    /\ \E constructed \in BOOLEAN : \E failure \in KickoffFailures :
       \E outputs \in OutputChoices : \E r \in Readings(now) :
       \E save \in SaveFailures : \E t \in Clock(r.second) :
         LET k == IF constructed
                  THEN kickoff(failure, outputs, ai_reviews, r.first, r.second)
                  ELSE [raised |-> TRUE, ret |-> <<>>, ai_reviews |-> ai_reviews]
             a == run_analysis(constructed, k, save, analysis_results, t)
         IN  /\ analysis' = [op |-> "run_analysis", crew |-> "CodebaseAnalysisCrew",
                             constructed |-> constructed, kickoff |-> k, save |-> save,
                             raised |-> FALSE, ret |-> a.ret,
                             results0 |-> analysis_results, at |-> t]
             /\ ai_reviews' = k.ai_reviews
             /\ analysis_results' = a.analysis_results
             /\ now' = t
    /\ pc' = "analysis_returned"
    /\ UNCHANGED <<managerVars, gateway, mcpVars>>

\* run_analysis(args) with the stand-in of the test in place of the class
RunAnalysisOnStandIn ==
    /\ pc = "analysis"
    /\ \E constructed \in BOOLEAN : \E outcome \in StandInReturns :
       \E save \in SaveFailures : \E t \in Clock(now) :
         LET k == [raised |-> outcome.raised, ret |-> outcome.ret,
                   ai_reviews |-> ai_reviews]
             a == run_analysis(constructed, k, save, analysis_results, t)
         IN  /\ analysis' = [op |-> "run_analysis", crew |-> "stand-in",
                             constructed |-> constructed, kickoff |-> k, save |-> save,
                             raised |-> FALSE, ret |-> a.ret,
                             results0 |-> analysis_results, at |-> t]
             /\ analysis_results' = a.analysis_results
             /\ now' = t
    /\ pc' = "analysis_returned"
    /\ UNCHANGED <<managerVars, gateway, ai_reviews, mcpVars>>

\* a file that an earlier run has left
EarlierFile == [timestamp |-> "earlier"]

InitAnalysis ==
    /\ running_services = {}
    /\ passed = {}
    /\ pc = "analysis"
    /\ cmd = "none"
    /\ names = <<>>
    /\ idx = 0
    /\ didx = 0
    /\ ci = 0
    /\ ret = "unset"
    /\ trace = <<>>
    /\ running0 = {}
    /\ exists = [f \in ComposeFileSet |-> TRUE]
    /\ kong_config = "absent"
    /\ prometheus_config = "absent"
    /\ baseline = TRUE
    /\ deviations = 0
    /\ cli = FALSE
    /\ handler = FALSE
    /\ signals = 0
    /\ exit_code = NotExited
    /\ probe = NoProbe
    /\ services = _load_service_config
    /\ gateway = NoRequest
    /\ now \in 0..MaxClock
    /\ ai_reviews \in {<<>>} \cup {Write(<<>>, t, EarlierFile) : t \in 0..now}
    /\ analysis_results \in {<<>>} \cup {Write(<<>>, t, EarlierFile) : t \in 0..now}
    /\ analysis = NoAnalysis
    /\ McpIdle

NextAnalysis ==
    \/ Kickoff
    \/ RunAnalysis
    \/ RunAnalysisOnStandIn

SpecAnalysis == InitAnalysis /\ [][NextAnalysis]_vars

----------------------------------------------------------------------------
(* integrations/mcp_integration.py: MCPEnhancedAICrew *)

\* the configurations of MCPIntegrationConfig that matter to an analysis:
\* the sequential, planning and memory sub-clients enabled or not
ClientChoices ==
    {c \in [DOMAIN DefaultClients -> BOOLEAN] : c["context7"] /\ c["cloudflare"]}

\* AnalysisResult(...) as analyze_code_with_mcp creates it; `id` stands for
\* the identity of the object
AnalysisResult(id) ==
    [id |-> id, sequential_thinking_steps |-> <<>>, planning_tasks |-> <<>>]

\* what invoke_sequential_thinking returns after its sleep(0)
invoke_sequential_thinking ==
    IF ~_clients["sequential"]
    THEN [error |-> "sequential_disabled"]
    ELSE [steps |-> <<"analyze", "recommend">>]

\* what create_planning_session returns after its sleep(0)
create_planning_session ==
    IF ~_clients["planning"]
    THEN [error |-> "planning_disabled"]
    ELSE [session_id |-> "plan", tasks |-> <<>>]

\* mutant: the result is stored whether the memory sub-client is enabled or not
StoredAlways(result) == Append(_memory_store, result)

\* store_analysis_result after its sleep(0): the memory store afterwards
store_analysis_result(result) ==
    IF ~_clients["memory"]
    THEN _memory_store
    ELSE Append(_memory_store, result)

\* mutant: the result is appended to analysis_history before
\* store_analysis_result is awaited
AppendsBeforeStore(at) == at = "planning"

\* `self.analysis_history.append(result)` comes when the coroutine is resumed
\* out of store_analysis_result, in the same step as the append to the store
AppendsToHistory(at) == at = "store"

\* analysis_history after coroutine i was resumed at `at`
HistoryAfter(i, at, result) ==
    IF AppendsToHistory(at) THEN Append(analysis_history, result) ELSE analysis_history

\* analyze_code_with_mcp is called and runs up to its first yield point, the
\* sleep(0) of invoke_sequential_thinking
AnalyzeCodeWithMcp ==
    /\ pc = "mcp"
    /\ Len(coroutines) < MaxCoroutines
    /\ coroutines' = Append(coroutines,
                            [at |-> "sequential",
                             result |-> AnalysisResult(Len(coroutines) + 1)])
    /\ UNCHANGED <<pc, managerVars, gateway, crewVars,
                   analysis_history, _memory_store, _clients, history>>

\* a coroutine is resumed in invoke_sequential_thinking and runs up to the
\* sleep(0) of create_planning_session
ResumeSequentialThinking ==
    /\ pc = "mcp"
    /\ \E i \in 1..Len(coroutines) :
         /\ coroutines[i].at = "sequential"
         /\ LET seq == invoke_sequential_thinking
                result == IF "steps" \in DOMAIN seq
                          THEN [coroutines[i].result EXCEPT
                                  !.sequential_thinking_steps = seq.steps]
                          ELSE coroutines[i].result
            IN  /\ coroutines' = [coroutines EXCEPT ![i] =
                                    [at |-> "planning", result |-> result]]
                /\ analysis_history' = HistoryAfter(i, "sequential", result)
    /\ UNCHANGED <<pc, managerVars, gateway, crewVars, _memory_store, _clients, history>>

\* a coroutine is resumed in create_planning_session and runs up to the
\* sleep(0) of store_analysis_result
ResumePlanningSession ==
    /\ pc = "mcp"
    /\ \E i \in 1..Len(coroutines) :
         /\ coroutines[i].at = "planning"
         /\ LET plan == create_planning_session
                result == IF "tasks" \in DOMAIN plan
                          THEN [coroutines[i].result EXCEPT !.planning_tasks = plan.tasks]
                          ELSE coroutines[i].result
            IN  /\ coroutines' = [coroutines EXCEPT ![i] =
                                    [at |-> "store", result |-> result]]
                /\ analysis_history' = HistoryAfter(i, "planning", result)
    /\ UNCHANGED <<pc, managerVars, gateway, crewVars, _memory_store, _clients, history>>

\* a coroutine is resumed in store_analysis_result and runs to the end of
\* analyze_code_with_mcp: the append to the store when memory is enabled, the
\* return into analyze_code_with_mcp, the append to analysis_history
ResumeStore ==
    /\ pc = "mcp"
    /\ \E i \in 1..Len(coroutines) :
         /\ coroutines[i].at = "store"
         /\ _memory_store' = store_analysis_result(coroutines[i].result)
         /\ analysis_history' = HistoryAfter(i, "store", coroutines[i].result)
         /\ coroutines' = [coroutines EXCEPT ![i].at = "done"]
    /\ UNCHANGED <<pc, managerVars, gateway, crewVars, _clients, history>>

\* lst[start:] of a Python list: a negative start counts from the end, and a
\* start outside the list is brought to its nearer end
SliceFrom(lst, start) ==
    LET n == Len(lst)
        first == IF start < 0
                 THEN (IF n + start < 0 THEN 0 ELSE n + start)
                 ELSE (IF start > n THEN n ELSE start)
    IN  SubSeq(lst, first + 1, n)

\* get_analysis_history(limit): list(self.analysis_history)[-limit:]
get_analysis_history(limit) == SliceFrom(analysis_history, 0 - limit)

\* get_analysis_history is called; it has no yield point
GetAnalysisHistory ==
    /\ pc = "mcp"
    /\ \E limit \in 0..MaxLimit :
         history' = [limit |-> limit, of |-> analysis_history,
                     returned |-> get_analysis_history(limit)]
    /\ UNCHANGED <<pc, managerVars, gateway, crewVars,
                   analysis_history, _memory_store, _clients, coroutines>>

(* One MCPEnhancedAICrew: coroutines started and resumed in any order, and *)
(* get_analysis_history called between their steps.                        *)

InitMcp ==
    /\ running_services = {}
    /\ passed = {}
    /\ pc = "mcp"
    /\ cmd = "none"
    /\ names = <<>>
    /\ idx = 0
    /\ didx = 0
    /\ ci = 0
    /\ ret = "unset"
    /\ trace = <<>>
    /\ running0 = {}
    /\ exists = [f \in ComposeFileSet |-> TRUE]
    /\ kong_config = "absent"
    /\ prometheus_config = "absent"
    /\ baseline = TRUE
    /\ deviations = 0
    /\ cli = FALSE
    /\ handler = FALSE
    /\ signals = 0
    /\ exit_code = NotExited
    /\ probe = NoProbe
    /\ services = _load_service_config
    /\ gateway = NoRequest
    /\ CrewIdle
    /\ analysis_history = <<>>
    /\ _memory_store = <<>>
    /\ _clients \in ClientChoices
    /\ coroutines = <<>>
    /\ history = NoHistory

NextMcp ==
    \/ AnalyzeCodeWithMcp
    \/ ResumeSequentialThinking
    \/ ResumePlanningSession
    \/ ResumeStore
    \/ GetAnalysisHistory

SpecMcp == InitMcp /\ [][NextMcp]_vars

----------------------------------------------------------------------------
(* What the trace of the current operation says. *)

TraceIdx == 1..Len(trace)

IsProbe(e, role) == e.kind = "probe" /\ e.what = role

IsCmd(e, what) == e.kind = "cmd" /\ e.what = what

\* while handling target number i, the probe of one of its dependencies failed
DepFailedAt(i) ==
    \E k \in TraceIdx : IsProbe(trace[k], "dep") /\ trace[k].at = i /\ ~trace[k].ok

\* target number i was itself probed
SelfProbedAt(i) ==
    \E k \in TraceIdx : IsProbe(trace[k], "self") /\ trace[k].at = i

\* target number i was itself probed, and found healthy
SelfHealthyAt(i) ==
    \E k \in TraceIdx : IsProbe(trace[k], "self") /\ trace[k].at = i /\ trace[k].ok

\* the registered names among the dependencies of a registered service
DirectDeps(s) ==
    {services[s].dependencies[n] : n \in 1..Len(services[s].dependencies)} \cap KeySet

\* while handling target number i, each of its registered dependencies was
\* probed and found healthy
DepsHealthyAt(i) ==
    \A d \in DirectDeps(services_to_start[i]) :
        \E k \in TraceIdx :
            /\ IsProbe(trace[k], "dep")
            /\ trace[k].at = i
            /\ trace[k].arg = d
            /\ trace[k].ok

TargetIdx == 1..Len(services_to_start)

\* the code of start_services is running or has returned
InStart ==
    /\ cmd \in {"start", "restart"}
    /\ pc \in {"check_docker", "setup", "compose_up", "target", "returned"}

\* start_services has returned True to the caller
StartReturned ==
    /\ cmd \in {"start", "restart"}
    /\ pc = "returned"
    /\ ret = "True"

\* the running set start_services began with
StartBase == IF cmd = "restart" THEN {} ELSE running0

\* the check of the container runtime failed at event k
DockerFailedAt(k) ==
    /\ trace[k].kind = "cmd"
    /\ trace[k].what \in {"docker version", "docker-compose version"}
    /\ ~trace[k].ok

Reverse(q) == [i \in 1..Len(q) |-> q[Len(q) + 1 - i]]

FileExists(f) == exists[f]

\* the compose files that exist, in the order of docker_compose_files
ExistingFiles == SelectSeq(docker_compose_files, FileExists)

----------------------------------------------------------------------------
(* C1 *)

\* C1: in start_services, a target one of whose registered dependencies fails
\* its health probe is not probed itself and is not added to running_services;
\* the run goes on: when start_services returns, every registered target none
\* of whose dependencies failed has been probed and, if healthy, is in
\* running_services.
C1_UnhealthyDependencySkipsOnlyDependents ==
    cmd \in {"start", "restart"} =>
        LET depFailed == {trace[k].at : k \in {n \in TraceIdx :
                             IsProbe(trace[n], "dep") /\ ~trace[n].ok}}
            selfProbed == {trace[k].at : k \in {n \in TraceIdx :
                             IsProbe(trace[n], "self")}}
            selfHealthy == {trace[k].at : k \in {n \in TraceIdx :
                             IsProbe(trace[n], "self") /\ trace[n].ok}}
        IN  /\ depFailed \cap selfProbed = {}
            /\ InStart =>
                 running_services \ StartBase \subseteq
                    {services_to_start[i] : i \in selfHealthy \ depFailed}
            /\ StartReturned =>
                 \A i \in TargetIdx :
                    (services_to_start[i] \in KeySet /\ i \notin depFailed) =>
                        /\ i \in selfProbed
                        /\ i \in selfHealthy =>
                             services_to_start[i] \in running_services

\* start_services over the whole registry has returned: one target was skipped
\* for a dependency and is not running, a later one was probed and is running
C1_Witness ==
    /\ StartReturned
    /\ names = <<>>
    /\ \E i, j \in TargetIdx :
         /\ i < j
         /\ DepFailedAt(i)
         /\ services_to_start[i] \notin running_services
         /\ SelfHealthyAt(j)
         /\ services_to_start[j] \in running_services

----------------------------------------------------------------------------
(* C2 *)

\* C2: when start_services, begun with an empty running set, returns True,
\* running_services is exactly the set of registered targets whose own probe
\* succeeded and whose registered dependencies all probed healthy; for the
\* targets opensearch (no dependencies, healthy) and graylog (depends on
\* opensearch, itself unhealthy) the running set is {opensearch}.
C2_RunningSetIsTheHealthyTargets ==
    (StartReturned /\ StartBase = {}) =>
        /\ running_services =
             {services_to_start[i] :
                i \in {j \in TargetIdx : /\ services_to_start[j] \in KeySet
                                         /\ SelfHealthyAt(j)
                                         /\ DepsHealthyAt(j)}}
        /\ (/\ names = <<"opensearch", "graylog">>
            /\ SelfHealthyAt(1)
            /\ ~SelfHealthyAt(2)) => running_services = {"opensearch"}

\* start(opensearch, graylog) on an empty running set has returned: opensearch
\* was healthy as a target and as graylog's dependency, graylog was probed and
\* was not
C2_Witness ==
    /\ StartReturned
    /\ cmd = "start"
    /\ running0 = {}
    /\ names = <<"opensearch", "graylog">>
    /\ SelfHealthyAt(1)
    /\ DepsHealthyAt(2)
    /\ SelfProbedAt(2)
    /\ ~SelfHealthyAt(2)
    /\ running_services = {"opensearch"}

----------------------------------------------------------------------------
(* C3 *)

\* stop_services has returned: to its caller, or into restart_services
StopReturned == (pc = "returned" /\ cmd = "stop") \/ pc = "sleep"

\* C3: after stop_services returns, running_services is empty, whatever the
\* names, the running set before and the exit codes of the teardown commands.
C3_StopClearsRunningSet == StopReturned => running_services = {}

\* stop_services with names has returned; the running set was not empty and a
\* teardown command had failed
C3_Witness ==
    /\ pc = "returned"
    /\ cmd = "stop"
    /\ names # <<>>
    /\ running0 # {}
    /\ \E k \in TraceIdx : IsCmd(trace[k], "down") /\ ~trace[k].ok
    /\ running_services = {}

----------------------------------------------------------------------------
(* C4 *)

\* _check_service_health was called on a service without a health endpoint
TcpOnlyProbed ==
    /\ pc = "health_returned"
    /\ services[probe.name].health_endpoint = ""

\* C4: for a service whose health endpoint is the empty string,
\* _check_service_health returns the result of the one TCP connect check (the
\* port answers or it does not) and performs no HTTP GET.
C4_EmptyEndpointIsTcpOnly ==
    TcpOnlyProbed =>
        /\ probe.result.ok = (Answer(probe.stream, 1) # ConnRefused)
        /\ probe.result.ok = _check_port(probe.stream)
        /\ probe.result.connects = 1
        /\ probe.result.gets = 0

\* postgres probed with the timeout of start_services while its port opens
\* only after the first attempt: unhealthy, after one connect and no GET
C4_Witness ==
    /\ TcpOnlyProbed
    /\ probe.name = "postgres"
    /\ probe.timeout = StartTimeout
    /\ probe.stream = [prefix |-> <<ConnRefused>>, rest |-> 200]
    /\ ~probe.result.ok
    /\ probe.result.gets = 0

----------------------------------------------------------------------------
(* C5 *)

\* the world never answers on the port
Unreachable(stream) ==
    /\ stream.rest = ConnRefused
    /\ \A i \in 1..Len(stream.prefix) : stream.prefix[i] = ConnRefused

\* status has come to its end with every service it probed unreachable
StatusEndedAllUnreachable ==
    /\ cmd = "status"
    /\ pc = "returned"
    /\ \A k \in TraceIdx : trace[k].kind = "probe" => Unreachable(trace[k].stream)

\* what status printed: service name -> healthy or not
StatusReport ==
    [s \in {trace[k].arg : k \in {j \in TraceIdx : IsProbe(trace[j], "status")}} |->
        \E k \in TraceIdx :
            IsProbe(trace[k], "status") /\ trace[k].arg = s /\ trace[k].ok]

\* the value returned is a mapping, not None, a boolean or an exception
ReturnedMapping == ret \notin {"None", "True", "False", "raised", "unset"}

\* C5 as stated: status() with every registered service unreachable returns a
\* mapping of every registered name to false and raises no exception.
C5_StatusReturnsMapping ==
    StatusEndedAllUnreachable =>
        /\ ReturnedMapping
        /\ StatusReport = [s \in KeySet |-> FALSE]

\* C5 as amended: status() with every registered service unreachable reports
\* (prints) every registered name as not healthy, raises no exception and
\* returns None.
C5_StatusReportsAllUnhealthy ==
    StatusEndedAllUnreachable =>
        /\ ret = "None"
        /\ StatusReport = [s \in KeySet |-> FALSE]

\* status has returned in a world where nothing answers
C5_Witness ==
    /\ StatusEndedAllUnreachable
    /\ ~baseline
    /\ Len(trace) = Len(Keys)
    /\ \A k \in TraceIdx : ~trace[k].ok

----------------------------------------------------------------------------
(* C6 *)

\* the events of start_services in the trace: all of them for start, those
\* after the sleep for restart
StartPart ==
    IF cmd = "restart"
    THEN IF \E k \in TraceIdx : trace[k].kind = "sleep"
         THEN SubSeq(trace, (CHOOSE k \in TraceIdx : trace[k].kind = "sleep") + 1,
                     Len(trace))
         ELSE <<>>
    ELSE trace

\* what start_services returns, given what its commands answered
ExpectedReturn(tr) ==
    IF \E k \in 1..Len(tr) :
          /\ tr[k].kind = "cmd"
          /\ tr[k].what \in {"docker version", "docker-compose version", "up"}
          /\ ~tr[k].ok
    THEN "False" ELSE "True"

\* what start_services adds to an empty running set, given what its probes answered
ExpectedRunning(tr) ==
    {tr[k].arg : k \in {j \in 1..Len(tr) : IsProbe(tr[j], "self") /\ tr[j].ok}}

\* C6: restart_services is stop_services, then the sleep, then start_services,
\* and returns what start_services returns; on an empty running set its return
\* value and final running set are those of start_services alone: the same
\* function of what the commands and the probes of start_services answered.
C6_RestartIsStopThenStart ==
    (pc = "returned" /\ cmd \in {"start", "restart"} /\ ret # "raised") =>
        /\ running0 = {} =>
             /\ ret = ExpectedReturn(StartPart)
             /\ running_services = ExpectedRunning(StartPart)
        /\ cmd = "restart" =>
             \E s \in TraceIdx :
                /\ trace[s].kind = "sleep"
                /\ s > 1
                /\ trace[s - 1].kind = "clear"
                /\ \A k \in 1..(s - 2) : IsCmd(trace[k], "down")
                /\ \A k \in (s + 1)..Len(trace) :
                      /\ trace[k].kind \notin {"clear", "sleep"}
                      /\ ~IsCmd(trace[k], "down")
                /\ ret = ExpectedReturn(StartPart)

\* restart on an empty running set has returned True after a teardown command
\* and with services running
C6_Witness ==
    /\ pc = "returned"
    /\ cmd = "restart"
    /\ running0 = {}
    /\ ret = "True"
    /\ running_services # {}
    /\ \E k \in TraceIdx : IsCmd(trace[k], "down")

----------------------------------------------------------------------------
(* C7 *)

\* C7: if docker version or docker-compose version fails, start_services
\* returns False at once: no compose up is run, no health probe is made and
\* running_services is left as it was.
C7_NoRuntimeFailsFast ==
    cmd \in {"start", "restart"} =>
        \A k \in TraceIdx :
            DockerFailedAt(k) =>
                /\ k = Len(trace)
                /\ pc = "returned"
                /\ ret = "False"
                /\ running_services = StartBase
                /\ \A j \in TraceIdx :
                      trace[j].kind # "probe" /\ ~IsCmd(trace[j], "up")

\* start on a running set that is not empty has returned False because
\* docker-compose version failed after docker version had succeeded
C7_Witness ==
    /\ cmd = "start"
    /\ pc = "returned"
    /\ ret = "False"
    /\ running0 # {}
    /\ running_services = running0
    /\ Len(trace) = 2
    /\ IsCmd(trace[1], "docker version") /\ trace[1].ok
    /\ IsCmd(trace[2], "docker-compose version") /\ ~trace[2].ok

----------------------------------------------------------------------------
(* C8 *)

RECURSIVE DepClosure(_)
DepClosure(S) ==
    LET more == S \cup UNION {DirectDeps(x) : x \in S}
    IN  IF more = S THEN S ELSE DepClosure(more)

\* every registered service s depends on, directly or through other services
TransitiveDeps(s) == DepClosure(DirectDeps(s))

\* C8 as stated: before a target is probed, every service in the transitive
\* closure of its dependencies has been probed and found healthy.
C8_TransitiveDependenciesProbedFirst ==
    \A k \in TraceIdx :
        IsProbe(trace[k], "self") =>
            \A d \in TransitiveDeps(trace[k].arg) :
                \E j \in 1..(k - 1) :
                    trace[j].kind = "probe" /\ trace[j].arg = d /\ trace[j].ok

\* C8 as amended: before a target is probed, each of its own registered
\* dependencies has been probed for it and found healthy; the dependencies of
\* its dependencies are not looked at.
C8_DirectDependenciesProbedFirst ==
    \A k \in TraceIdx :
        IsProbe(trace[k], "self") =>
            \A d \in DirectDeps(trace[k].arg) :
                \E j \in 1..(k - 1) :
                    /\ IsProbe(trace[j], "dep")
                    /\ trace[j].at = trace[k].at
                    /\ trace[j].arg = d
                    /\ trace[j].ok

\* opendiscourse-api was probed after postgres and supabase-auth had been
\* found healthy for it
C8_Witness ==
    /\ cmd = "start"
    /\ names = <<"opendiscourse-api">>
    /\ Len(trace) >= 3
    /\ IsProbe(trace[Len(trace)], "self")
    /\ trace[Len(trace)].arg = "opendiscourse-api"
    /\ IsProbe(trace[Len(trace) - 1], "dep")
    /\ trace[Len(trace) - 1].arg = "supabase-auth"
    /\ IsProbe(trace[Len(trace) - 2], "dep")
    /\ trace[Len(trace) - 2].arg = "postgres"

----------------------------------------------------------------------------
(* C9 *)

\* the check of the container runtime passed
DockerPassed ==
    \E k \in 1..Len(StartPart) :
        IsCmd(StartPart[k], "docker-compose version") /\ StartPart[k].ok

----------------------------------------------------------------------------
(* C10 *)

SignalIdx == {k \in TraceIdx : trace[k].kind = "signal"}

LastSignal == CHOOSE k \in SignalIdx : \A j \in SignalIdx : j <= k

\* what the process did after the last signal
AfterLastSignal == SubSeq(trace, LastSignal + 1, Len(trace))

\* C10: once a signal has been delivered to a running command, the process
\* does nothing but stop_services (compose down for the existing compose
\* files, then the clearing of the running set), and it has done all of it
\* when it exits: the interrupted command takes no further step.
C10_SignalStopsThenExits ==
    LET sigs == SignalIdx
    IN  sigs # {} =>
            LET first == CHOOSE k \in sigs : \A j \in sigs : k <= j
                last == CHOOSE k \in sigs : \A j \in sigs : j <= k
                after == SubSeq(trace, last + 1, Len(trace))
            IN  /\ \A k \in (first + 1)..Len(trace) :
                      \/ trace[k].kind \in {"signal", "clear"}
                      \/ IsCmd(trace[k], "down")
                /\ pc \in {"compose_down", "clear", "exited"}
                /\ pc = "exited" =>
                      /\ running_services = {}
                      /\ Len(after) = Len(ExistingFiles) + 1
                      /\ after[Len(after)].kind = "clear"
                      /\ \A n \in 1..Len(ExistingFiles) :
                            /\ IsCmd(after[n], "down")
                            /\ after[n].arg = Reverse(ExistingFiles)[n]

\* start was interrupted by a signal after it had found a service healthy, and
\* the process has exited: both compose files were torn down
C10_Witness ==
    /\ pc = "exited"
    /\ cmd = "start"
    /\ signals > 0
    /\ exists = [f \in ComposeFileSet |-> TRUE]
    /\ \E k \in TraceIdx : IsProbe(trace[k], "self") /\ trace[k].ok /\ k < LastSignal
    /\ \E k \in TraceIdx : IsProbe(trace[k], "self") /\ trace[k].at = 1
    /\ ~(\E k \in TraceIdx : IsProbe(trace[k], "self") /\ trace[k].at = Len(Keys))
    /\ running_services = {}

----------------------------------------------------------------------------
(* C11 *)

\* C11: the process under main() ends with a non-zero exit code when the
\* command raised an exception or a signal interrupted it, and with zero
\* otherwise.
C11_ExitCodeTellsHowTheCommandEnded ==
    (cli /\ pc = "exited") =>
        (exit_code # 0 <=> (ret = "raised" \/ signals > 0))

\* a signal interrupted start while it was probing its targets, and the
\* process has ended with exit code 0
C11_InterruptedExitsZero ==
    /\ cli
    /\ pc = "exited"
    /\ cmd = "start"
    /\ signals > 0
    /\ exit_code = 0
    /\ \E k \in TraceIdx : IsProbe(trace[k], "self") /\ k < LastSignal

----------------------------------------------------------------------------
(* C12 *)

\* C12: status leaves running_services as it found it, whatever the set and
\* whatever the probes answer; it does nothing but probe the registered
\* services, one after the other in the order of the registry, each with one
\* health check of at most StatusTimeout attempts; when it returns it has
\* probed every registered service exactly once.
C12_StatusProbesEachOnceAndKeepsRunningSet ==
    (cmd = "status" /\ signals = 0) =>
        /\ running_services = running0
        /\ Len(trace) <= Len(Keys)
        /\ \A k \in TraceIdx :
              /\ IsProbe(trace[k], "status")
              /\ trace[k].at = k
              /\ trace[k].arg = Keys[k]
              /\ trace[k].gets <= StatusTimeout
              /\ trace[k].connects <= 1
              /\ trace[k].gets + trace[k].connects >= 1
        /\ pc \in {"returned", "exited"} => Len(trace) = Len(Keys)

\* status has returned with a non-empty running set untouched, having found
\* one service healthy and another one not
C12_Witness ==
    /\ cmd = "status"
    /\ pc = "returned"
    /\ running0 # {}
    /\ running_services = running0
    /\ \E j, k \in TraceIdx : trace[j].ok /\ ~trace[k].ok
    /\ \E s \in running0 :
          \E k \in TraceIdx : trace[k].arg = s /\ ~trace[k].ok

----------------------------------------------------------------------------
(* C13 *)

\* the positions in services_to_start of the registered targets one of whose
\* dependencies is not a key of the registry
DanglingTargets ==
    {i \in TargetIdx :
        /\ services_to_start[i] \in KeySet
        /\ \E n \in 1..Len(services[services_to_start[i]].dependencies) :
              services[services_to_start[i]].dependencies[n] \notin KeySet}

\* C13: a dependency name that is not in the registry is reported and skipped:
\* it is never probed, and when start_services returns, every target with such
\* a dependency none of whose registered dependencies failed its probe has had
\* each registered dependency probed, has been probed itself, and is in
\* running_services when its own probe succeeded.
C13_UnknownDependencyIsSkipped ==
    LET probes == {k \in TraceIdx : trace[k].kind = "probe"}
        depFailed == {trace[k].at : k \in {n \in probes :
                         trace[n].what = "dep" /\ ~trace[n].ok}}
        depProbed == {<<trace[k].at, trace[k].arg>> : k \in {n \in probes :
                         trace[n].what = "dep"}}
        selfHealthy == {trace[k].at : k \in {n \in probes :
                         trace[n].what = "self" /\ trace[n].ok}}
        selfProbed == {trace[k].at : k \in {n \in probes : trace[n].what = "self"}}
    IN  /\ \A k \in probes : trace[k].arg \in KeySet
        /\ StartReturned =>
              \A i \in DanglingTargets \ depFailed :
                  /\ \A d \in DirectDeps(services_to_start[i]) : <<i, d>> \in depProbed
                  /\ i \in selfProbed
                  /\ i \in selfHealthy => services_to_start[i] \in running_services

\* start_services(["graylog"]) has returned on a registry where graylog depends
\* on an unknown name and then on opensearch: the unknown name was reported,
\* opensearch was probed after it, and graylog is running
C13_Witness ==
    /\ StartReturned
    /\ names = <<"graylog">>
    /\ services["graylog"].dependencies = <<UnknownDependency, "opensearch">>
    /\ running_services = {"graylog"}
    /\ \E j, k \in TraceIdx :
          /\ j < k
          /\ trace[j].kind = "unknown dependency"
          /\ trace[j].arg = UnknownDependency
          /\ IsProbe(trace[k], "dep")
          /\ trace[k].arg = "opensearch"

----------------------------------------------------------------------------
(* C14 *)

IsDown(e) == IsCmd(e, "down")

IsUp(e) == IsCmd(e, "up")

\* the compose files of the events of a sequence
Files(events) == [n \in 1..Len(events) |-> events[n].arg]

IsPrefix(p, q) == Len(p) <= Len(q) /\ p = SubSeq(q, 1, Len(p))

\* C14: stop_services tears down the existing compose files one by one, each
\* once, in the reverse of the order in which start_services brings them up
\* (the order of docker_compose_files), and a failed teardown does not end the
\* loop: while the loop runs the teardowns are a prefix of the reversed
\* existing files, after the loop they are all of them.
C14_TeardownInReverseOrder ==
    LET downs == Files(SelectSeq(trace, IsDown))
        ups == Files(SelectSeq(trace, IsUp))
    IN  /\ IsPrefix(ups, ExistingFiles)
        /\ cmd \in {"stop", "restart"} =>
              /\ IsPrefix(downs, Reverse(ExistingFiles))
              /\ pc # "compose_down" => downs = Reverse(ExistingFiles)
        /\ (cmd = "restart" /\ pc = "target") => downs = Reverse(ups)

\* restart has torn down both compose files, the first teardown having failed,
\* and has brought both up again in the opposite order
C14_Witness ==
    /\ cmd = "restart"
    /\ pc = "returned"
    /\ ret = "True"
    /\ Len(trace) >= 2
    /\ IsDown(trace[1]) /\ ~trace[1].ok /\ trace[1].arg = docker_compose_files[2]
    /\ IsDown(trace[2]) /\ trace[2].ok /\ trace[2].arg = docker_compose_files[1]
    /\ Files(SelectSeq(trace, IsUp)) = docker_compose_files

----------------------------------------------------------------------------
(* C15 *)

\* the positions of the compose up commands and of the probes in what
\* start_services did
UpIdx == {k \in 1..Len(StartPart) : IsUp(StartPart[k])}

ProbeIdx == {k \in 1..Len(StartPart) : StartPart[k].kind = "probe"}

----------------------------------------------------------------------------
(* C16 *)

\* _check_service_health was called on a service with a health endpoint
HttpProbed ==
    /\ pc = "health_returned"
    /\ services[probe.name].health_endpoint # ""

\* the attempts, among the first n, that the world answers with a status below 400
GoodAttempts(n) ==
    {i \in 1..n : Answer(probe.stream, i) # ConnRefused /\ Answer(probe.stream, i) < 400}

\* C16: for a service with a health endpoint, _check_service_health(timeout=N)
\* makes at most N GETs and no TCP connect of its own; it returns True exactly
\* when one of the first N attempts is answered with a status below 400, and
\* then the first such attempt is its last GET; it returns False exactly when
\* all N attempts raised or were answered with 400 or above, after N GETs.
C16_HttpProbeIsBoundedByTimeout ==
    HttpProbed =>
        LET good == GoodAttempts(probe.timeout)
        IN  /\ probe.result.gets <= probe.timeout
            /\ probe.result.connects = 0
            /\ probe.result.ok <=> good # {}
            /\ probe.result.ok =>
                  /\ probe.result.gets \in good
                  /\ \A i \in good : probe.result.gets <= i
            /\ ~probe.result.ok => probe.result.gets = probe.timeout

\* opensearch probed with the timeout of status: a 503, then a refused
\* connection, then a 200: healthy after three GETs
C16_Witness ==
    /\ HttpProbed
    /\ probe.name = "opensearch"
    /\ probe.timeout = StatusTimeout
    /\ probe.stream = [prefix |-> <<503, ConnRefused>>, rest |-> 200]
    /\ probe.result.ok
    /\ probe.result.gets = 3

----------------------------------------------------------------------------
(* C17 *)

\* C17: at every point of every sequence of operations, each member of
\* running_services is a registered name that passed its own health check in
\* a start_services call since stop_services last returned; a name given to
\* start_services that is not in the registry is reported, never probed and
\* never added.
C17_RunningSetHoldsOnlyHealthyRegisteredNames ==
    /\ running_services \subseteq KeySet
    /\ running_services \subseteq passed
    /\ \A k \in TraceIdx : trace[k].kind = "probe" => trace[k].arg \in KeySet
    /\ StartReturned =>
          \A i \in TargetIdx :
              services_to_start[i] \notin KeySet =>
                  /\ services_to_start[i] \notin running_services
                  /\ \E k \in TraceIdx :
                        /\ trace[k].kind = "unknown service"
                        /\ trace[k].arg = services_to_start[i]
                        /\ trace[k].at = i
                  /\ \A k \in TraceIdx : trace[k].kind = "probe" => trace[k].at # i

\* restart, given a name that is not registered between two that are, has
\* returned: the stop dropped what an earlier start had added, and only the
\* two registered names, both healthy, are in the running set
C17_Witness ==
    /\ cmd = "restart"
    /\ StartReturned
    /\ names = <<"supabase-auth", "no-such-service", "clickhouse">>
    /\ running0 \ running_services # {}
    /\ running_services = {"supabase-auth", "clickhouse"}

----------------------------------------------------------------------------
(* C18 *)

\* what one step may do to a configuration file: nothing to one that exists;
\* and a step in which setup_environment completes leaves the file generated
\* if it was absent
ConfigStep(before, after, completes) ==
    /\ before # "absent" => after = before
    /\ completes => after # "absent"
    /\ (completes /\ before = "absent") => after = "generated"

\* C18: no step of the program changes a kong.yml or a prometheus.yml that
\* exists, be it there from the start or written by an earlier
\* setup_environment; setup_environment, called directly or by start_services,
\* writes a file exactly when it is absent.
C18_ExistingConfigIsNeverOverwritten ==
    [][LET completes == pc = "setup" /\ pc' # "setup" /\ ret' # "raised"
       IN  /\ ConfigStep(kong_config, kong_config', completes)
           /\ ConfigStep(prometheus_config, prometheus_config', completes)]_vars

\* setup_environment has returned, called after a start_services that ran it
\* before: the kong.yml that was there from the start and the prometheus.yml
\* generated by the first run are as they were
C18_Witness ==
    /\ cmd = "setup"
    /\ pc = "returned"
    /\ ret = "None"
    /\ passed # {}
    /\ kong_config = "custom"
    /\ prometheus_config = "generated"

----------------------------------------------------------------------------
(* C19 *)

\* C19: in the registry _load_service_config builds, every name in a
\* descriptor's dependencies is a key of the registry, and the name of each
\* descriptor is the key it is stored under.
C19_RegistryIsClosedAndNamedByKey ==
    \A k \in DOMAIN services :
        /\ services[k].name = k
        /\ \A n \in 1..Len(services[k].dependencies) :
              services[k].dependencies[n] \in DOMAIN services

\* start_services has probed supabase-db, found under its own name in the
\* registry, as the dependency that supabase-auth's descriptor names
C19_Witness ==
    /\ cmd = "start"
    /\ "supabase-db" \in DOMAIN services
    /\ services["supabase-auth"].dependencies = <<"supabase-db">>
    /\ \E k \in TraceIdx :
          /\ IsProbe(trace[k], "dep")
          /\ trace[k].arg = "supabase-db"
          /\ services_to_start[trace[k].at] = "supabase-auth"

----------------------------------------------------------------------------
(* C20 *)

\* one of the credential variables of the request's endpoint is unset or empty
CredentialMissing ==
    \E name \in DOMAIN gateway.env :
        ~gateway.env[name].set \/ gateway.env[name].value = ""

\* C20: a create endpoint one of whose credential variables is unset or
\* empty answers 200 with status "simulated" and sends no request upstream,
\* whatever the upstream service would have answered.
C20_MissingCredentialIsSimulated ==
    (pc = "gateway_returned" /\ CredentialMissing) =>
        /\ gateway.response.status = "simulated"
        /\ gateway.response.status_code = 200
        /\ gateway.response.posts = 0

\* /github/pull-requests with a token and an empty GITHUB_REPO, while GitHub
\* would have refused the request: simulated
C20_Witness ==
    /\ pc = "gateway_returned"
    /\ gateway.endpoint = "/github/pull-requests"
    /\ gateway.env["GITHUB_TOKEN"] = Value("x")
    /\ gateway.env["GITHUB_REPO"] = Value("")
    /\ gateway.upstream.status_code = 404
    /\ gateway.response.status = "simulated"
    /\ gateway.response.posts = 0


----------------------------------------------------------------------------
(* C21 *)

\* the statuses the endpoint of the request takes for a success
SuccessStatuses ==
    IF gateway.endpoint = "/linear/issues" THEN {200} ELSE {200, 201}

\* the request was handled with every credential variable set and not empty,
\* and the upstream service answered the POST
ForwardedAndAnswered ==
    /\ pc = "gateway_returned"
    /\ ~CredentialMissing
    /\ gateway.upstream # UpstreamDown

\* C21: with its credentials present, a create endpoint makes exactly one POST;
\* when the upstream service answers, it raises an HTTPException exactly when
\* the upstream status is not a success status (200 or 201; 200 only for
\* Linear), with that status as its status code and the upstream body as its
\* detail; otherwise it returns the parsed JSON of the upstream body.
C21_UpstreamErrorIsPassedOn ==
    (pc = "gateway_returned" /\ ~CredentialMissing) =>
        /\ gateway.response.posts = 1
        /\ ForwardedAndAnswered =>
              LET failed == gateway.upstream.status_code \notin SuccessStatuses
                  parsed == json_loads(gateway.upstream.text)
              IN  /\ gateway.response.status = "error" <=> failed
                  /\ failed =>
                        /\ gateway.response.status_code = gateway.upstream.status_code
                        /\ gateway.response.detail = gateway.upstream.text
                  /\ (~failed /\ parsed.ok) =>
                        /\ gateway.response.status = "upstream"
                        /\ gateway.response.status_code = 200
                        /\ gateway.response.json = parsed.value

\* /linear/issues with its key, answered 201 by Linear: an HTTPException with
\* status code 201 and the body for its detail, after one POST
C21_Witness ==
    /\ ForwardedAndAnswered
    /\ gateway.endpoint = "/linear/issues"
    /\ gateway.upstream = [status_code |-> 201, text |-> "{}"]
    /\ gateway.response.status = "error"
    /\ gateway.response.status_code = 201
    /\ gateway.response.detail = "{}"
    /\ gateway.response.posts = 1


----------------------------------------------------------------------------
(* C22 *)

\* kickoff was called directly and has come to its end
KickoffEnded == pc = "analysis_returned" /\ analysis.op = "kickoff"

\* C22: kickoff never raises: when building or running the crew or writing the
\* review file raises an exception, it returns a dict with status "error" and
\* an error message; otherwise it returns the results dict (a timestamp, the
\* four normalized task outputs, the raw result) after writing that dict to
\* one file review_<timestamp>.json under ai_reviews, leaving the other
\* files there as they were.
C22_KickoffNeverRaises ==
    KickoffEnded =>
        /\ ~analysis.raised
        /\ analysis.failure # "none" =>
              /\ DOMAIN analysis.ret = {"status", "error"}
              /\ analysis.ret.status = "error"
              /\ analysis.ret.error # ""
        /\ analysis.failure = "none" =>
              /\ DOMAIN analysis.ret =
                    {"timestamp", "code_review", "documentation", "quality_assessment",
                     "improvement_proposals", "raw_result"}
              /\ \A k \in {"code_review", "documentation", "quality_assessment",
                           "improvement_proposals"} :
                    analysis.ret[k] \in {"None", "text", str("object")}
              /\ DOMAIN ai_reviews = DOMAIN analysis.reviews0 \cup {analysis.at}
              /\ ai_reviews[analysis.at] = analysis.ret
              /\ \A t \in DOMAIN analysis.reviews0 \ {analysis.at} :
                    ai_reviews[t] = analysis.reviews0[t]

\* kickoff has returned an error dict because json.dump raised, next to the
\* file of an earlier run
C22_Witness ==
    /\ KickoffEnded
    /\ analysis.failure = "dump"
    /\ analysis.reviews0 # <<>>
    /\ analysis.ret.status = "error"
    /\ ~analysis.raised

----------------------------------------------------------------------------
(* C23 *)

\* run_analysis has come to its end
RunAnalysisEnded == pc = "analysis_returned" /\ analysis.op = "run_analysis"

\* an exception occurred during construction, kickoff or saving
AnalysisFailed ==
    \/ ~analysis.constructed
    \/ analysis.kickoff.raised
    \/ (~Falsy(analysis.kickoff.ret) /\ analysis.save # "none")

\* C23: run_analysis never raises; it returns exactly the dict the crew's
\* kickoff returned when that dict is not empty and saving it succeeds, and
\* the empty dict when kickoff returns an empty result or an exception occurs
\* during construction, kickoff or saving.
C23_RunAnalysisReturnsKickoffResultOrEmpty ==
    RunAnalysisEnded =>
        /\ ~analysis.raised
        /\ IF AnalysisFailed \/ Falsy(analysis.kickoff.ret)
           THEN analysis.ret = <<>>
           ELSE /\ analysis.ret = analysis.kickoff.ret
                /\ analysis.at \in DOMAIN analysis_results
                /\ analysis_results[analysis.at] = analysis.ret

\* run_analysis on the stand-in of the test has returned the dict of its
\* kickoff and has saved it
C23_Witness ==
    /\ RunAnalysisEnded
    /\ analysis.crew = "stand-in"
    /\ analysis.constructed
    /\ analysis.kickoff.ret = FakeResults
    /\ analysis.save = "none"
    /\ analysis.ret = FakeResults
    /\ analysis_results[analysis.at] = FakeResults


----------------------------------------------------------------------------
(* C24 *)

\* C24: after start_services over all registered services returns,
\* running_services is closed under dependencies: each registered dependency
\* of a service in the running set is in the running set too, whatever the
\* probes answer, and also when the answer for a service changes from one
\* probe to the next.
C24_RunningSetClosedUnderDependencies ==
    (StartReturned /\ names = <<>>) =>
        \A s \in running_services : DirectDeps(s) \subseteq running_services

\* start_services over the whole registry, begun with an empty running set,
\* has returned: supabase-db failed its own probe and is not running, it was
\* then found healthy as the dependency of supabase-auth, which is running
C24_DependentRunsWithoutItsDependency ==
    /\ StartReturned
    /\ cmd = "start"
    /\ names = <<>>
    /\ running0 = {}
    /\ "supabase-auth" \in running_services
    /\ "supabase-db" \notin running_services
    /\ \E j, k \in TraceIdx :
          /\ j < k
          /\ IsProbe(trace[j], "self") /\ trace[j].arg = "supabase-db" /\ ~trace[j].ok
          /\ IsProbe(trace[k], "dep") /\ trace[k].arg = "supabase-db" /\ trace[k].ok


----------------------------------------------------------------------------
(* C25 *)

\* the names given to start_services
Listed == {names[i] : i \in 1..Len(names)}

\* C25: when start_services is given a list of names, only names of that list
\* are added to running_services: a dependency that is probed healthy for a
\* listed service and is not listed itself is not added.
C25_OnlyListedNamesAreAdded ==
    (InStart /\ names # <<>>) => running_services \ StartBase \subseteq Listed

\* start_services(["opendiscourse-api"]) on an empty running set has returned:
\* postgres and supabase-auth were found healthy as its dependencies, and
\* opendiscourse-api alone is running
C25_Witness ==
    /\ StartReturned
    /\ cmd = "start"
    /\ names = <<"opendiscourse-api">>
    /\ running0 = {}
    /\ running_services = {"opendiscourse-api"}
    /\ \E j, k \in TraceIdx :
          /\ IsProbe(trace[j], "dep") /\ trace[j].arg = "postgres" /\ trace[j].ok
          /\ IsProbe(trace[k], "dep") /\ trace[k].arg = "supabase-auth" /\ trace[k].ok


----------------------------------------------------------------------------
(* C26 *)

\* the port answers one of the first `ceiling` attempts with a status below 400
ReachableWithin(stream, ceiling) ==
    \E i \in 1..ceiling :
        i <= Len(stream.prefix) + 1
        /\ Answer(stream, i) # ConnRefused
        /\ Answer(stream, i) < 400

\* C26: the bounded retry applies to every health probe of start_services: a
\* service or dependency, with or without a health endpoint, whose port does
\* not answer the first attempt and answers a later one within the attempt
\* ceiling is reported healthy, so the target it is probed for is not skipped.
C26_EveryProbeIsRetried ==
    cmd \in {"start", "restart"} =>
        \A k \in TraceIdx :
            (/\ trace[k].kind = "probe"
             /\ ReachableWithin(trace[k].stream,
                                IF trace[k].what = "dep" THEN DependencyTimeout
                                                          ELSE StartTimeout)) =>
                trace[k].ok

\* start_services(["opendiscourse-api"]) has returned: the port of postgres
\* refused the one connect made for the dependency and would have answered the
\* next; postgres was reported unhealthy and opendiscourse-api was not probed
C26_LateTcpDependencySkipsDependent ==
    /\ StartReturned
    /\ names = <<"opendiscourse-api">>
    /\ running_services = StartBase
    /\ \A k \in TraceIdx : ~IsProbe(trace[k], "self")
    /\ \E k \in TraceIdx :
          /\ IsProbe(trace[k], "dep")
          /\ trace[k].arg = "postgres"
          /\ trace[k].stream = StreamLate
          /\ ~trace[k].ok
          /\ trace[k].connects = 1
          /\ trace[k].gets = 0


----------------------------------------------------------------------------
(* C27 *)

\* start_services has come to its end: it returned or it raised
StartEnded == pc = "returned" /\ cmd \in {"start", "restart"}

\* the check of the container runtime or a compose up failed
RuntimeOrComposeUpFailed ==
    \E k \in 1..Len(StartPart) :
        /\ StartPart[k].kind = "cmd"
        /\ StartPart[k].what \in {"docker version", "docker-compose version", "up"}
        /\ ~StartPart[k].ok

----------------------------------------------------------------------------
(* C28 *)

\* the positions of the trace at which a stop_services called by
\* signal_handler has cleared the running set
HandlerClears ==
    {k \in TraceIdx : trace[k].kind = "clear" /\ \E s \in SignalIdx : s < k}

\* the interrupted command was inside stop_services when the signal came
SignalInsideStop ==
    \E s \in SignalIdx :
        /\ s > 1
        /\ IsCmd(trace[s - 1], "down")
        /\ \A k \in 1..(s - 1) : trace[k].kind # "signal"

\* C28: when a signal has been delivered to the process, at whatever point of
\* start_services, stop_services or restart_services (inside stop_services
\* too, where the stop_services of the handler runs on top of the interrupted
\* one), the running set is empty when the process exits, and from the moment
\* the stop_services of the handler has cleared the running set no service is
\* added to it: it stays empty and no health probe is made any more.
C28_SignalLeavesNothingRunning ==
    (cli /\ signals > 0) =>
        /\ pc = "exited" => (running_services = {} /\ HandlerClears # {})
        /\ \A c \in HandlerClears :
              /\ running_services = {}
              /\ \A k \in (c + 1)..Len(trace) : trace[k].kind # "probe"

\* restart was interrupted inside its stop_services, the handler called
\* stop_services on top of it, and the process has exited
C28_Witness ==
    /\ cli
    /\ pc = "exited"
    /\ cmd = "restart"
    /\ signals > 0
    /\ SignalInsideStop
    /\ HandlerClears # {}
    /\ running_services = {}
    /\ \A k \in TraceIdx : trace[k].kind \notin {"sleep", "probe"}

\* start was interrupted after it had added a service, and the process has
\* exited with nothing running
C28_WitnessStart ==
    /\ cli
    /\ pc = "exited"
    /\ cmd = "start"
    /\ HandlerClears # {}
    /\ \E k \in TraceIdx : IsProbe(trace[k], "self") /\ trace[k].ok /\ k < LastSignal
    /\ running_services = {}


----------------------------------------------------------------------------
(* C29 *)

\* get_analysis_history has been called
HistoryAsked == history.limit >= 0

\* the last k entries of a list, in their order
LastEntries(lst, k) ==
    SubSeq(lst, Len(lst) - (IF k < Len(lst) THEN k ELSE Len(lst)) + 1, Len(lst))

\* C29: for every limit >= 0, get_analysis_history(limit) returns at most
\* limit results, and they are the most recently appended entries of
\* analysis_history in their original order; limit = 0 gives an empty list.
C29_HistoryReturnsAtMostLimit ==
    HistoryAsked =>
        /\ Len(history.returned) <= history.limit
        /\ history.returned = LastEntries(history.of, history.limit)

\* what get_analysis_history does: for a limit above 0 it returns the last
\* entries, at most limit of them; for limit = 0 it returns the whole list
HistoryAsTheSliceGivesIt ==
    HistoryAsked =>
        history.returned = IF history.limit = 0
                           THEN history.of
                           ELSE LastEntries(history.of, history.limit)

\* get_analysis_history(0) has returned every result of a history of two
C29_LimitZeroReturnsEverything ==
    /\ HistoryAsked
    /\ history.limit = 0
    /\ Len(history.of) >= 2
    /\ history.returned = history.of

----------------------------------------------------------------------------
(* C30 *)

\* the results of the calls of analyze_code_with_mcp that have completed
Completed == {coroutines[i].result : i \in {j \in 1..Len(coroutines) : coroutines[j].at = "done"}}

\* how often a result is in a list
Occurrences(lst, result) == Cardinality({k \in 1..Len(lst) : lst[k] = result})

\* C30: however the analyze_code_with_mcp coroutines of one crew interleave at
\* their yield points, the result of every completed call is in
\* analysis_history exactly once (and nothing else is); with the memory
\* sub-client enabled the memory store holds the same results in the same
\* order as analysis_history, with the memory sub-client disabled the store
\* stays empty while analysis_history grows all the same.
C30_HistoryAndStoreAgree ==
    pc = "mcp" =>
        /\ \A r \in Completed : Occurrences(analysis_history, r) = 1
        /\ \A k \in 1..Len(analysis_history) : analysis_history[k] \in Completed
        /\ _clients["memory"] => _memory_store = analysis_history
        /\ ~_clients["memory"] => _memory_store = <<>>

\* three coroutines have completed in another order than they were started,
\* with the memory sub-client enabled
C30_Witness ==
    /\ pc = "mcp"
    /\ _clients["memory"]
    /\ Len(analysis_history) = 3
    /\ analysis_history[1].id = 3
    /\ analysis_history[2].id = 1
    /\ _memory_store = analysis_history

\* two coroutines have completed with the memory sub-client disabled
C30_WitnessMemoryDisabled ==
    /\ pc = "mcp"
    /\ ~_clients["memory"]
    /\ Len(analysis_history) >= 2
    /\ _memory_store = <<>>

====
